---- MODULE Spec2Model ----
(***************************************************************************)
(* A model of the text-to-structured-data core of wiki-person-analyzer:    *)
(* the timeline and network analysis of Analyzer (src/analyzer.py), the    *)
(* date normalizers (src/core/data_normalizer.py,                          *)
(* src/core/data_extractor.py), the Scraper (src/core/scraper.py) and the  *)
(* relation and timeline extraction of the two DataProcessor classes       *)
(* (src/core/data_processor.py, src/data_processor.py).                    *)
(*                                                                         *)
(* Text is modelled as a sequence of tokens.  A token is a maximal run of  *)
(* decimal digits, D(v, w) with value v written in w digits, or a symbol   *)
(* Sym(s).  Japanese words are written in romaji:                          *)
(*   nen = U+5E74 (year), gatsu = U+6708 (month), nichi = U+65E5 (day),    *)
(*   fumei = U+4E0D U+660E (the unknown sentinel),                         *)
(*   Reiwa, Heisei, Showa, Taisho, Meiji = the era names.                  *)
(***************************************************************************)
EXTENDS Integers, Sequences, FiniteSets, TLC

VARIABLES
    df_timeline,   \* Analyzer.df_timeline: [isNone, rows]
    input,         \* the strings the normalizers are called with: [s, t]
    call,          \* the last operation called, with its arguments
    ret,           \* what that call returned, or the exception it raised
    scraper,       \* Scraper: [page_title, page_id, page_content, soup, cache_headers]
    fetched,       \* history: fetch_page_data has stored a page at least once
    df_network,    \* Analyzer.df_network: [isNone, rows]
    graph,         \* Analyzer.graph: [isNone, nodes, edges]
    processor,     \* the DataProcessors: [text, df_timeline] of src/data_processor.py,
                   \* [entities, sentences, text_data, mecab_neologd] of
                   \* src/core/data_processor.py
    batch          \* a run over several page titles: [processed, combined_data, written],
                   \* the subjects taken up, the data collected, whether the run
                   \* wrote its output file

vars == <<df_timeline, input, call, ret, scraper, fetched, df_network, graph, processor,
          batch>>

-----------------------------------------------------------------------------
(* Bounds of the model.                                                    *)

MaxYear == 7        \* integer event years are 0 .. MaxYear
MaxEvents == 3      \* rows of a timeline in SpecTimeline
MaxWords == 2       \* tokens of an event text in SpecTurning
MaxTurnEvents == 2  \* rows of a timeline in SpecTurning
MaxEraYear == 3     \* era years are 1 .. MaxEraYear, and 30 and 64

-----------------------------------------------------------------------------
(* Text as token sequences.                                                *)

D(v, w) == [k |-> "d", v |-> v, w |-> w]
Sym(s) == [k |-> s, v |-> 0, w |-> 0]
IsDigits(t) == t.k = "d"

RECURSIVE Pow10(_)
Pow10(w) == IF w = 0 THEN 1 ELSE 10 * Pow10(w - 1)

RECURSIVE Width(_)
Width(n) == IF n < 10 THEN 1 ELSE 1 + Width(n \div 10)

\* str(n) of a Python int
IntToStr(n) ==
    IF n < 0 THEN <<Sym("-"), D(-n, Width(-n))>> ELSE <<D(n, Width(n))>>

\* Adjacent digit runs are one run: the token form of string concatenation.
RECURSIVE JoinRuns(_)
JoinRuns(s) ==
    IF Len(s) < 2 THEN s
    ELSE IF IsDigits(s[1]) /\ IsDigits(s[2])
         THEN JoinRuns(<<D(s[1].v * Pow10(s[2].w) + s[2].v, s[1].w + s[2].w)>>
                       \o SubSeq(s, 3, Len(s)))
         ELSE <<s[1]>> \o JoinRuns(Tail(s))

\* s.replace("-", "")
RemoveHyphen(s) == JoinRuns(SelectSeq(s, LAMBDA t : t.k # "-"))

\* int(s) of a Python str: a value, or ValueError
ParseInt(s) ==
    IF Len(s) = 1 /\ IsDigits(s[1])
    THEN [ok |-> TRUE, v |-> s[1].v]
    ELSE [ok |-> FALSE, v |-> 0]

-----------------------------------------------------------------------------
(* Results of a call.                                                      *)

Ok(v) == [tag |-> "ok", val |-> v, exc |-> ""]
Raise(e) == [tag |-> "raise", val |-> <<>>, exc |-> e]
NoRet == [tag |-> "none", val |-> <<>>, exc |-> ""]
NoCall == [op |-> "none"]
NoInput == [s |-> <<>>, t |-> <<>>]

None == [some |-> FALSE, v |-> 0]
Some(n) == [some |-> TRUE, v |-> n]
\* Python truthiness of an optional int argument
Truthy(a) == a.some /\ a.v # 0

-----------------------------------------------------------------------------
(* The objects as their constructors leave them.                           *)

\* a parsed page: its infobox table, its sibling elements, its img tags
NoPage == [kind |-> "none", infobox |-> [present |-> FALSE, rows |-> <<>>],
           elements |-> <<>>, editlinks |-> FALSE, images |-> <<>>]
page_title == "Einstein"
NewScraper ==
    [page_title |-> page_title, page_id |-> None, page_content |-> NoPage,
     soup |-> NoPage, cache_headers |-> {}]

NoNetwork == [isNone |-> TRUE, rows |-> <<>>]
NoGraph == [isNone |-> TRUE, nodes |-> {}, edges |-> {}]

\* no run has started: nothing processed, nothing written
NoBatch == [processed |-> 0, combined_data |-> <<>>, written |-> FALSE]

\* self.text_data = None
NoTextData == [isNone |-> TRUE, headings_and_text |-> <<>>]

NewProcessor ==
    [text |-> <<>>, entities |-> <<>>, sentences |-> <<>>, df_timeline |-> <<>>,
     text_data |-> NoTextData, mecab_neologd |-> TRUE]

-----------------------------------------------------------------------------
(* The timeline table.  A year cell is an int or a string (an era year).   *)

IntYear(n) == [isInt |-> TRUE, n |-> n, s |-> <<>>]
StrYear(s) == [isInt |-> FALSE, n |-> 0, s |-> s]
EraYear == StrYear(<<Sym("Showa"), D(3, 1), Sym("nen")>>)

\* str(cell)
YearStr(y) == IF y.isInt THEN IntToStr(y.n) ELSE y.s

\* one element of  df["year"].astype(str).str.replace("-", "").astype(int)
YearAsInt(y) == ParseInt(RemoveHyphen(YearStr(y)))

NoTable == [isNone |-> TRUE, rows |-> <<>>]
Table(rows) == [isNone |-> FALSE, rows |-> rows]

YearsParse(rows) == \A i \in 1..Len(rows) : YearAsInt(rows[i].year).ok
IntYears(rows) == [i \in 1..Len(rows) |-> YearAsInt(rows[i].year).v]

SeqRange(s) == {s[i] : i \in 1..Len(s)}

SetMin(S) == CHOOSE x \in S : \A y \in S : x <= y

\* sorted(set of ints)
RECURSIVE SortedSeq(_)
SortedSeq(S) ==
    IF S = {} THEN <<>>
    ELSE LET m == SetMin(S) IN <<m>> \o SortedSeq(S \ {m})

-----------------------------------------------------------------------------
(* Analyzer.detect_activity_periods                                        *)

GapLimit == 3
NoStart == -1

\* PeriodsLoop with the gap test off by one (>= in place of >)
RECURSIVE PeriodsLoopGapOffByOne(_, _, _, _)
PeriodsLoopGapOffByOne(years, i, start_year, periods) ==
    IF i > Len(years)
    THEN IF start_year # NoStart
         THEN Append(periods, <<start_year, years[Len(years)]>>)
         ELSE periods
    ELSE LET s == IF start_year = NoStart THEN years[i] ELSE start_year
         IN IF i + 1 <= Len(years) /\ years[i + 1] - years[i] >= GapLimit
            THEN PeriodsLoopGapOffByOne(years, i + 1, NoStart, Append(periods, <<s, years[i]>>))
            ELSE PeriodsLoopGapOffByOne(years, i + 1, s, periods)

RECURSIVE PeriodsLoop(_, _, _, _)
PeriodsLoop(years, i, start_year, periods) ==
    IF i > Len(years)
    THEN IF start_year # NoStart
         THEN Append(periods, <<start_year, years[Len(years)]>>)
         ELSE periods
    ELSE LET s == IF start_year = NoStart THEN years[i] ELSE start_year
         IN IF i + 1 <= Len(years) /\ years[i + 1] - years[i] > GapLimit
            THEN PeriodsLoop(years, i + 1, NoStart, Append(periods, <<s, years[i]>>))
            ELSE PeriodsLoop(years, i + 1, s, periods)

detect_activity_periods(df) ==
    IF df.isNone THEN Raise("AttributeError")
    ELSE IF df.rows = <<>> THEN Ok(<<>>)
    ELSE IF ~YearsParse(df.rows) THEN Raise("ValueError")
    ELSE Ok(PeriodsLoop(SortedSeq(SeqRange(IntYears(df.rows))), 1, NoStart, <<>>))

-----------------------------------------------------------------------------
(* Analyzer._determine_event_type_spacy and identify_turning_points.       *)
(* An event text is the sequence of tokens the tokenizer yields for it.    *)

career_keywords ==
    {"shunin", "tainin", "tenshoku", "nyusha", "sotsugyo", "nyugaku", "shushoku",
     "taishoku", "ido", "shoshin", "kokaku", "tenseki", "shukko"}
success_keywords ==
    {"jusho", "seiko", "happyo", "shuppan", "tassei", "kaihatsu", "setsuritsu",
     "sosetsu", "soritsu", "kansei", "hatsubai", "kokai", "hitto", "koken", "kiyo"}
failure_keywords ==
    {"shippai", "haiboku", "tettai", "jinin", "taiho", "kainin", "jishoku", "tosan",
     "kaisan", "enjo", "fushoji", "jiko", "jiken", "saigai", "shikyo", "shibo",
     "kaiko", "risutora"}

NoType == "None"

\* for token in doc: the first token that is a keyword of any list decides
RECURSIVE determine_event_type_spacy(_)
determine_event_type_spacy(doc) ==
    IF doc = <<>> THEN NoType
    ELSE IF Head(doc) \in career_keywords THEN "career_change"
    ELSE IF Head(doc) \in success_keywords THEN "success"
    ELSE IF Head(doc) \in failure_keywords THEN "failure"
    ELSE determine_event_type_spacy(Tail(doc))

RECURSIVE TurningLoop(_)
TurningLoop(rows) ==
    IF rows = <<>> THEN <<>>
    ELSE LET row == Head(rows)
             event_type == determine_event_type_spacy(row.event)
         IN (IF event_type # NoType
             THEN <<[year |-> row.year, event |-> row.event, type |-> event_type]>>
             ELSE <<>>) \o TurningLoop(Tail(rows))

identify_turning_points(df) ==
    IF df.isNone THEN Raise("AttributeError") ELSE Ok(TurningLoop(df.rows))

-----------------------------------------------------------------------------
(* Analyzer.analyze_timeline                                               *)

\* df["year"].value_counts(), keyed by str(year) as the returned dict is
events_per_year(rows) ==
    [key \in {YearStr(rows[i].year) : i \in 1..Len(rows)} |->
        Cardinality({i \in 1..Len(rows) : YearStr(rows[i].year) = key})]

\* sort_index() compares the index values: ints and strs do not compare
MixedYears(rows) ==
    /\ \E i \in 1..Len(rows) : rows[i].year.isInt
    /\ \E i \in 1..Len(rows) : ~rows[i].year.isInt

\* rows[ year >= int(start_year) ] when start_year is truthy
FilterFrom(rows, start_year) ==
    IF Truthy(start_year)
    THEN SelectSeq(rows, LAMBDA r : YearAsInt(r.year).v >= start_year.v)
    ELSE rows

\* rows[ year <= int(end_year) ] when end_year is truthy
FilterTo(rows, end_year) ==
    IF Truthy(end_year)
    THEN SelectSeq(rows, LAMBDA r : YearAsInt(r.year).v <= end_year.v)
    ELSE rows

\* wakachi_timeline_events_mecab: the tokens of the last event of each year
wakachi_timeline_events_mecab(rows) ==
    [key \in {YearStr(rows[i].year) : i \in 1..Len(rows)} |->
        LET last == CHOOSE i \in 1..Len(rows) :
                        /\ YearStr(rows[i].year) = key
                        /\ \A j \in 1..Len(rows) : YearStr(rows[j].year) = key => j <= i
        IN rows[last].event]

EmptyAnalysis ==
    [events_per_year |-> <<>>, filtered_events |-> <<>>, activity_periods |-> <<>>,
     turning_points |-> <<>>, wakachi_events_mecab |-> <<>>]

analyze_timeline(df, start_year, end_year) ==
    IF df.isNone \/ df.rows = <<>> THEN Ok(EmptyAnalysis)
    ELSE IF MixedYears(df.rows) THEN Raise("TypeError")
    ELSE IF (Truthy(start_year) \/ Truthy(end_year)) /\ ~YearsParse(df.rows)
         THEN Raise("ValueError")
    ELSE LET periods == detect_activity_periods(df)
             turning == identify_turning_points(df)
         IN IF periods.tag = "raise" THEN periods
            ELSE IF turning.tag = "raise" THEN turning
            ELSE Ok([events_per_year |-> events_per_year(df.rows),
                     filtered_events |-> FilterTo(FilterFrom(df.rows, start_year), end_year),
                     activity_periods |-> periods.val,
                     turning_points |-> turning.val,
                     wakachi_events_mecab |-> wakachi_timeline_events_mecab(df.rows)])

-----------------------------------------------------------------------------
(* The timeline operations as actions: a call leaves the table unchanged.  *)

FilterArgs == {None, Some(0), Some(3)}

AnalyzeTimeline ==
    \E start_year \in FilterArgs, end_year \in FilterArgs :
        /\ call' = [op |-> "analyze_timeline", start_year |-> start_year, end_year |-> end_year]
        /\ ret' = analyze_timeline(df_timeline, start_year, end_year)
        /\ UNCHANGED <<df_timeline, input, scraper, fetched, df_network, graph, processor, batch>>

DetectActivityPeriods ==
    /\ call' = [op |-> "detect_activity_periods"]
    /\ ret' = detect_activity_periods(df_timeline)
    /\ UNCHANGED <<df_timeline, input, scraper, fetched, df_network, graph, processor, batch>>

IdentifyTurningPoints ==
    /\ call' = [op |-> "identify_turning_points"]
    /\ ret' = identify_turning_points(df_timeline)
    /\ UNCHANGED <<df_timeline, input, scraper, fetched, df_network, graph, processor, batch>>

NextTimeline == AnalyzeTimeline \/ DetectActivityPeriods \/ IdentifyTurningPoints

\* all sequences over S of length at most n
SeqsUpTo(S, n) == UNION {[1..m -> S] : m \in 0..n}

YearCells == {IntYear(n) : n \in 0..MaxYear} \cup {EraYear}
PlainText == <<"kenkyu">>
TimelineRows == [year : YearCells, event : {PlainText}]

InitTimeline ==
    /\ df_timeline \in {NoTable} \cup {Table(r) : r \in SeqsUpTo(TimelineRows, MaxEvents)}
    /\ input = NoInput
    /\ call = NoCall
    /\ batch = NoBatch
    /\ ret = NoRet
    /\ scraper = NewScraper
    /\ fetched = FALSE
    /\ df_network = NoNetwork
    /\ graph = NoGraph
    /\ processor = NewProcessor

SpecTimeline == InitTimeline /\ [][NextTimeline]_vars

Words == {"shunin", "jusho", "shippai", "kenkyu"}
TurnYears == {IntYear(1), IntYear(6)}
TurningRows == [year : TurnYears, event : SeqsUpTo(Words, MaxWords)]

InitTurning ==
    /\ df_timeline \in {NoTable} \cup {Table(r) : r \in SeqsUpTo(TurningRows, MaxTurnEvents)}
    /\ input = NoInput
    /\ call = NoCall
    /\ batch = NoBatch
    /\ ret = NoRet
    /\ scraper = NewScraper
    /\ fetched = FALSE
    /\ df_network = NoNetwork
    /\ graph = NoGraph
    /\ processor = NewProcessor

SpecTurning == InitTurning /\ [][NextTimeline]_vars

-----------------------------------------------------------------------------
(* DataNormalizer: dates.  A Python Optional[str] is NoneStr or Str(s).    *)

NoneStr == [none |-> TRUE, s |-> <<>>]
Str(s) == [none |-> FALSE, s |-> s]

Nen == Sym("nen")
Gatsu == Sym("gatsu")
Nichi == Sym("nichi")
Fumei == <<Sym("fumei")>>

\* the eras dict of convert_japanese_era_to_gregorian, in its order
eras ==
    <<[era |-> "Reiwa", start_year |-> 2019],
      [era |-> "Heisei", start_year |-> 1989],
      [era |-> "Showa", start_year |-> 1926],
      [era |-> "Taisho", start_year |-> 1912],
      [era |-> "Meiji", start_year |-> 1868]>>

\* re.match(era(\d+)nen(\d+)?gatsu?(\d+)?nichi?, s): the groups, month and day
\* being <<>> when their group did not take part in the match
EraMatch(era, s) ==
    IF Len(s) >= 3 /\ s[1] = Sym(era) /\ IsDigits(s[2]) /\ s[3] = Nen
    THEN LET hasMonth == Len(s) >= 4 /\ IsDigits(s[4])
             p == IF hasMonth THEN 5 ELSE 4
             q == IF Len(s) >= p /\ s[p] = Gatsu THEN p + 1 ELSE p
             hasDay == Len(s) >= q /\ IsDigits(s[q])
         IN [matched |-> TRUE, year |-> s[2].v,
             month |-> IF hasMonth THEN <<s[4]>> ELSE <<>>,
             day |-> IF hasDay THEN <<s[q]>> ELSE <<>>]
    ELSE [matched |-> FALSE, year |-> 0, month |-> <<>>, day |-> <<>>]

\* EraYearToGregorian counting the first era year as year 0 (the - 1 forgotten)
EraYearNoOffset(start_year, year) == start_year + year

\* year = start_year + int(year) - 1
EraYearToGregorian(start_year, year) == start_year + year - 1

RECURSIVE EraLoop(_, _)
EraLoop(i, s) ==
    IF i > Len(eras) THEN s
    ELSE LET m == EraMatch(eras[i].era, s)
         IN IF m.matched
            THEN IntToStr(EraYearToGregorian(eras[i].start_year, m.year)) \o <<Nen>>
                 \o (IF m.month # <<>> THEN m.month ELSE <<D(1, 2)>>) \o <<Gatsu>>
                 \o (IF m.day # <<>> THEN m.day ELSE <<D(1, 2)>>) \o <<Nichi>>
            ELSE EraLoop(i + 1, s)

convert_japanese_era_to_gregorian(date_str) == EraLoop(1, date_str)

IsLeap(y) == (y % 4 = 0 /\ y % 100 # 0) \/ y % 400 = 0
DaysIn(y, m) ==
    IF m \in {4, 6, 9, 11} THEN 30
    ELSE IF m = 2 THEN (IF IsLeap(y) THEN 29 ELSE 28)
    ELSE 31
ValidDate(y, m, d) == m \in 1..12 /\ d >= 1 /\ d <= DaysIn(y, m)

NoDate == [ok |-> FALSE, y |-> 0, m |-> 0, d |-> 0]
Date(y, m, d) == [ok |-> TRUE, y |-> y, m |-> m, d |-> d]

\* dateparser.parse(s, settings={'DATE_ORDER': 'YMD'}) on the strings of this
\* model: a complete date with a 4-digit year, written with nen/gatsu/nichi, with
\* slashes or with hyphens (blanks between the parts allowed), parses to that date
\* when it is a date of the calendar; every other string of the model parses to None.
dateparser_parse(str) ==
    LET s == SelectSeq(str, LAMBDA t : t.k # " ")
        shape ==
            /\ Len(s) \in {5, 6}
            /\ IsDigits(s[1]) /\ s[1].w = 4 /\ IsDigits(s[3]) /\ IsDigits(s[5])
            /\ \/ Len(s) = 6 /\ s[2] = Nen /\ s[4] = Gatsu /\ s[6] = Nichi
               \/ Len(s) = 5 /\ s[2] = Sym("/") /\ s[4] = Sym("/")
               \/ Len(s) = 5 /\ s[2] = Sym("-") /\ s[4] = Sym("-")
    IN IF shape /\ ValidDate(s[1].v, s[3].v, s[5].v)
       THEN Date(s[1].v, s[3].v, s[5].v)
       ELSE NoDate

\* a number zero-padded to w digits (%m, %d; %Y for the years from 1000 on)
Pad(n, w) == D(n, IF Width(n) > w THEN Width(n) ELSE w)

\* strftime_ymd with month and day not zero-padded ("%Y-%-m-%-d")
strftime_unpadded(date) ==
    <<Pad(date.y, 4), Sym("-"), Pad(date.m, 1), Sym("-"), Pad(date.d, 1)>>

\* parsed_date.strftime("%Y-%m-%d")
strftime_ymd(date) ==
    <<Pad(date.y, 4), Sym("-"), Pad(date.m, 2), Sym("-"), Pad(date.d, 2)>>

normalize_date(date_str) ==
    IF date_str = <<>> \/ date_str = Fumei THEN NoneStr
    ELSE LET parsed_date == dateparser_parse(convert_japanese_era_to_gregorian(date_str))
         IN IF parsed_date.ok THEN Str(strftime_ymd(parsed_date)) ELSE NoneStr

\* `value if value else None`: None and "" are falsy
handle_missing_value(value) ==
    IF ~value.none /\ value.s # <<>> THEN value ELSE NoneStr

-----------------------------------------------------------------------------
(* DataExtractor (and the identical DateExtractor): birth and death dates. *)

IsBlank(t) == t.k = " "

\* the first position from i on that holds no blank (\s*)
RECURSIVE SkipBlanks(_, _)
SkipBlanks(s, i) == IF i <= Len(s) /\ IsBlank(s[i]) THEN SkipBlanks(s, i + 1) ELSE i

\* (\d{4}nen\s*\d{1,2}gatsu\s*\d{1,2}nichi) matched with its year at token i: the
\* last position of the match, or 0.  A run of more than four digits gives its
\* last four to the year.
DateRegexEnd(s, i) ==
    IF i + 1 <= Len(s) /\ IsDigits(s[i]) /\ s[i].w >= 4 /\ s[i + 1] = Nen
    THEN LET m == SkipBlanks(s, i + 2)
         IN IF m + 1 <= Len(s) /\ IsDigits(s[m]) /\ s[m].w <= 2 /\ s[m + 1] = Gatsu
            THEN LET d == SkipBlanks(s, m + 2)
                 IN IF d + 1 <= Len(s) /\ IsDigits(s[d]) /\ s[d].w <= 2 /\ s[d + 1] = Nichi
                    THEN d + 1
                    ELSE 0
            ELSE 0
    ELSE 0

\* re.search(date_regex, value).group(1): the leftmost match, or <<>> for no match
date_regex_search(value) ==
    LET starts == {i \in 1..Len(value) : DateRegexEnd(value, i) # 0}
    IN IF starts = {} THEN <<>>
       ELSE LET i == SetMin(starts)
            IN <<D(value[i].v % Pow10(4), 4)>> \o SubSeq(value, i + 1, DateRegexEnd(value, i))

\* s.split('-')
RECURSIVE SplitHyphen(_, _)
SplitHyphen(s, part) ==
    IF s = <<>> THEN <<part>>
    ELSE IF Head(s) = Sym("-") THEN <<part>> \o SplitHyphen(Tail(s), <<>>)
    ELSE SplitHyphen(Tail(s), Append(part, Head(s)))

DateKeys == {"year", "month", "day", "full"}
UnknownRecord == [key \in DateKeys |-> Fumei]

\* extract_and_format_date keeping the matched year when the date does not normalize
extract_and_format_date_mixed(field, value) ==
    LET date_str == date_regex_search(value)
        normalized_date == IF date_str # <<>> THEN normalize_date(date_str) ELSE NoneStr
    IN IF date_str # <<>> /\ ~normalized_date.none
       THEN LET parts == SplitHyphen(normalized_date.s, <<>>)
            IN Ok([field |-> field,
                   rec |-> [key \in DateKeys |->
                               CASE key = "year" -> parts[1]
                                 [] key = "month" -> parts[2]
                                 [] key = "day" -> parts[3]
                                 [] OTHER -> normalized_date.s]])
       ELSE IF date_str # <<>>
       THEN Ok([field |-> field,
                rec |-> [key \in DateKeys |-> IF key = "year" THEN <<date_str[1]>> ELSE Fumei]])
       ELSE Ok([field |-> field, rec |-> UnknownRecord])

extract_and_format_date(field, value) ==
    LET date_str == date_regex_search(value)
        normalized_date == IF date_str # <<>> THEN normalize_date(date_str) ELSE NoneStr
    IN IF date_str # <<>> /\ ~normalized_date.none /\ normalized_date.s # <<>>
       THEN LET parts == SplitHyphen(normalized_date.s, <<>>)
            IN IF Len(parts) # 3 THEN Raise("ValueError")
               ELSE Ok([field |-> field,
                        rec |-> [key \in DateKeys |->
                                    CASE key = "year" -> parts[1]
                                      [] key = "month" -> parts[2]
                                      [] key = "day" -> parts[3]
                                      [] OTHER -> normalized_date.s]])
       ELSE Ok([field |-> field, rec |-> UnknownRecord])

extract_and_format_birth_date(value) == extract_and_format_date("birth_date", value)
extract_and_format_death_date(value) == extract_and_format_date("death_date", value)

\* datetime.strptime(s, "%Y-%m-%d"): %Y is four digits, %m and %d one or two
strptime_ymd(s) ==
    IF /\ Len(s) = 5
       /\ IsDigits(s[1]) /\ s[1].w = 4
       /\ s[2] = Sym("-") /\ IsDigits(s[3]) /\ s[3].w <= 2
       /\ s[4] = Sym("-") /\ IsDigits(s[5]) /\ s[5].w <= 2
       /\ s[1].v >= 1 /\ ValidDate(s[1].v, s[3].v, s[5].v)
    THEN Date(s[1].v, s[3].v, s[5].v)
    ELSE NoDate

\* BeforeBirthday comparing the months alone
BeforeBirthdayMonthOnly(birth, death) == IF death.m < birth.m THEN 1 ELSE 0

\* (death.month, death.day) < (birth.month, birth.day) as a Python int
BeforeBirthday(birth, death) ==
    IF death.m < birth.m \/ (death.m = birth.m /\ death.d < birth.d) THEN 1 ELSE 0

calculate_age_at_death(birth_date, death_date) ==
    IF birth_date = Fumei \/ death_date = Fumei THEN Ok(Fumei)
    ELSE LET birth_date_obj == strptime_ymd(birth_date)
             death_date_obj == strptime_ymd(death_date)
         IN IF ~birth_date_obj.ok \/ ~death_date_obj.ok THEN Raise("ValueError")
            ELSE Ok(IntToStr(death_date_obj.y - birth_date_obj.y
                             - BeforeBirthday(birth_date_obj, death_date_obj)))

-----------------------------------------------------------------------------
(* The normalizers as actions.  They are static methods: a call reads and  *)
(* changes no state, and its argument is any string of the sets below.     *)

X == Sym("x")          \* a word that is no part of a date
Blank == Sym(" ")

EraNames == {"Reiwa", "Heisei", "Showa", "Taisho", "Meiji"}
EraNs == (1..MaxEraYear) \cup {30, 64}
GregorianYears == {1879, 1955, 2020, 2021}
MonthTokens == {D(2, 1), D(5, 1), D(5, 2), D(12, 2), D(13, 2)}
DayTokens == {D(1, 1), D(1, 2), D(14, 2), D(29, 2), D(31, 2)}

\* what may follow "<era><N>nen"
EraTails ==
    {<<>>, <<X>>, <<Gatsu, D(1, 1), Nichi>>, <<D(5, 1), Nichi>>,
     <<D(5, 1), Gatsu, D(1, 1), Nichi, X>>}
    \cup {<<m, Gatsu>> : m \in MonthTokens}
    \cup {<<m, Gatsu, d, Nichi>> : m \in MonthTokens, d \in DayTokens}

EraStrings ==
    {<<Sym(e), D(n, Width(n)), Nen>> \o t : e \in EraNames, n \in EraNs, t \in EraTails}

NenDates == {<<D(y, 4), Nen, m, Gatsu, d, Nichi>> :
                y \in GregorianYears, m \in MonthTokens, d \in DayTokens}
SlashDates == {<<D(y, 4), Sym("/"), m, Sym("/"), d>> :
                y \in GregorianYears, m \in MonthTokens, d \in DayTokens}
HyphenDates == {<<D(y, 4), Sym("-"), m, Sym("-"), d>> :
                y \in GregorianYears, m \in MonthTokens, d \in DayTokens}

OtherStrings == {<<>>, Fumei, <<X>>, <<X, X>>, <<Sym("Showa"), X>>, <<X, Sym("Reiwa"), D(3, 1), Nen>>}

DateStrings == EraStrings \cup NenDates \cup SlashDates \cup HyphenDates \cup OtherStrings

\* infobox values: a date inside other text, with blanks, after another year
ValueStrings ==
    DateStrings
    \cup {pre \o g \o post : pre \in {<<X>>, <<D(3, 1), Nen, X>>, <<D(1879, 4), Nen, X>>},
                              g \in NenDates, post \in {<<>>, <<X>>}}
    \cup {<<D(y, 4), Nen, Blank, D(3, 1), Gatsu, Blank, D(14, 2), Nichi>> : y \in GregorianYears}
    \cup {<<D(12021, 5), Nen, D(5, 1), Gatsu, D(1, 1), Nichi>>,
          <<D(2021, 4), Nen, D(123, 3), Gatsu, D(1, 1), Nichi>>,
          <<D(1879, 4), Nen, D(2, 1), Gatsu, D(31, 2), Nichi, X, D(1955, 4), Nen, D(4, 1), Gatsu, D(18, 2), Nichi>>}

\* arguments of calculate_age_at_death: the sentinel, dates, malformed text
AgeStrings ==
    {Fumei, <<>>, <<X>>, <<D(1879, 4), Sym("/"), D(3, 2), Sym("/"), D(14, 2)>>}
    \cup {<<D(y, 4), Sym("-"), D(m, 2), Sym("-"), D(d, 2)>> :
            y \in {1879, 1955, 2020}, m \in {2, 3, 4}, d \in {14, 18, 29, 30}}

NormalizeDate ==
    /\ input.s \in DateStrings
    /\ call' = [op |-> "normalize_date"]
    /\ ret' = Ok(normalize_date(input.s))
    /\ UNCHANGED <<df_timeline, input, scraper, fetched, df_network, graph, processor, batch>>

ConvertJapaneseEra ==
    /\ input.s \in DateStrings
    /\ call' = [op |-> "convert_japanese_era_to_gregorian"]
    /\ ret' = Ok(convert_japanese_era_to_gregorian(input.s))
    /\ UNCHANGED <<df_timeline, input, scraper, fetched, df_network, graph, processor, batch>>

ExtractBirthDate ==
    /\ input.s \in ValueStrings
    /\ call' = [op |-> "extract_and_format_birth_date"]
    /\ ret' = extract_and_format_birth_date(input.s)
    /\ UNCHANGED <<df_timeline, input, scraper, fetched, df_network, graph, processor, batch>>

ExtractDeathDate ==
    /\ input.s \in ValueStrings
    /\ call' = [op |-> "extract_and_format_death_date"]
    /\ ret' = extract_and_format_death_date(input.s)
    /\ UNCHANGED <<df_timeline, input, scraper, fetched, df_network, graph, processor, batch>>

CalculateAgeAtDeath ==
    /\ input.s \in AgeStrings /\ input.t \in AgeStrings
    /\ call' = [op |-> "calculate_age_at_death"]
    /\ ret' = calculate_age_at_death(input.s, input.t)
    /\ UNCHANGED <<df_timeline, input, scraper, fetched, df_network, graph, processor, batch>>

HandleMissingValue ==
    \E value \in {NoneStr, Str(input.s)} :
        /\ input.s \in DateStrings
        /\ call' = [op |-> "handle_missing_value", value |-> value]
        /\ ret' = Ok(handle_missing_value(value))
        /\ UNCHANGED <<df_timeline, input, scraper, fetched, df_network, graph, processor, batch>>

NextNorm ==
    \/ HandleMissingValue
    \/ NormalizeDate
    \/ ConvertJapaneseEra
    \/ ExtractBirthDate
    \/ ExtractDeathDate
    \/ CalculateAgeAtDeath

\* one-string calls leave t empty; calculate_age_at_death takes s and t
NormInputs ==
    {[s |-> v, t |-> <<>>] : v \in ValueStrings}
    \cup {[s |-> b, t |-> d] : b \in AgeStrings, d \in AgeStrings}

InitNorm ==
    /\ df_timeline = NoTable
    /\ input \in NormInputs
    /\ call = NoCall
    /\ batch = NoBatch
    /\ ret = NoRet
    /\ scraper = NewScraper
    /\ fetched = FALSE
    /\ df_network = NoNetwork
    /\ graph = NoGraph
    /\ processor = NewProcessor

SpecNorm == InitNorm /\ [][NextNorm]_vars

-----------------------------------------------------------------------------
(* DataNormalizer: places and nationalities.                               *)
(*                                                                         *)
(* A place name is the sequence of its characters Sym(c), in romaji:       *)
(*   tou kyou = U+6771 U+4EAC, to = U+90FD, oo saka = U+5927 U+962A,       *)
(*   fu = U+5E9C, eki = U+99C5.                                            *)
(* A nationality string is a token sequence: a country word Sym(w), the    *)
(* hyphen Sym("-"), one blank Blank, a digit run D(v, w).                  *)

MaxLocationLen == 3
MaxGroups == 2

Tokyo == <<Sym("tou"), Sym("kyou")>>
TokyoTo == <<Sym("tou"), Sym("kyou"), Sym("to")>>
Osaka == <<Sym("oo"), Sym("saka")>>
OsakaFu == <<Sym("oo"), Sym("saka"), Sym("fu")>>

\* a mapping that rewrites every place beginning with a key of the mapping
standardize_location_by_prefix(location_str) ==
    IF Len(location_str) >= 2 /\ SubSeq(location_str, 1, 2) = Tokyo THEN TokyoTo
    ELSE IF Len(location_str) >= 2 /\ SubSeq(location_str, 1, 2) = Osaka THEN OsakaFu
    ELSE location_str

\* location_mapping.get(location_str, location_str)
standardize_location(location_str) ==
    IF location_str = Tokyo THEN TokyoTo
    ELSE IF location_str = Osaka THEN OsakaFu
    ELSE location_str

\* [^\d\s]
IsWordToken(t) == ~IsDigits(t) /\ t.k # " "

\* the end of [^\d\s]+ begun at i (the first position past the run)
RECURSIVE RunEnd(_, _)
RunEnd(s, i) ==
    IF i <= Len(s) /\ IsWordToken(s[i]) THEN RunEnd(s, i + 1) ELSE i

\* the end of [^\d\s]+(?:\s[^\d\s]+)* begun at i, greedy
RECURSIVE ChainEnd(_, _)
ChainEnd(s, i) ==
    LET e == RunEnd(s, i)
    IN IF e + 1 <= Len(s) /\ s[e].k = " " /\ IsWordToken(s[e + 1])
       THEN ChainEnd(s, e + 1)
       ELSE e

\* the first w digits of a digit run
FirstDigits(t, w) == IF t.w <= w THEN t ELSE D(t.v \div Pow10(t.w - w), w)

\* pattern_with_period matched at i: the chain of names, one blank, a run
\* of exactly four digits, a hyphen, two to four digits of the next run.
\* The names must reach the blank before the digits, so no shorter chain
\* matches where the greedy one does not.
PeriodMatchAt(s, i) ==
    LET e == ChainEnd(s, i)
    IN IF /\ i <= Len(s) /\ IsWordToken(s[i])
          /\ e + 3 <= Len(s)
          /\ s[e].k = " "
          /\ IsDigits(s[e + 1]) /\ s[e + 1].w = 4
          /\ s[e + 2].k = "-"
          /\ IsDigits(s[e + 3]) /\ s[e + 3].w >= 2
       THEN [matched |-> TRUE,
             countries |-> SubSeq(s, i, e - 1),
             start_year |-> s[e + 1],
             end_year |-> FirstDigits(s[e + 3], 4),
             \* the search goes on inside the digit run when it is longer
             rest |-> (IF s[e + 3].w > 4
                       THEN <<D(s[e + 3].v % Pow10(s[e + 3].w - 4), s[e + 3].w - 4)>>
                       ELSE <<>>) \o SubSeq(s, e + 4, Len(s))]
       ELSE [matched |-> FALSE, countries |-> <<>>, start_year |-> D(0, 0),
             end_year |-> D(0, 0), rest |-> <<>>]

\* pattern_with_period.findall(s)
RECURSIVE FindAllWithPeriod(_)
FindAllWithPeriod(s) ==
    IF s = <<>> THEN <<>>
    ELSE LET starts == {i \in 1..Len(s) : PeriodMatchAt(s, i).matched}
         IN IF starts = {} THEN <<>>
            ELSE LET i == CHOOSE a \in starts : \A b \in starts : a <= b
                     m == PeriodMatchAt(s, i)
                 IN <<m>> \o FindAllWithPeriod(m.rest)

\* pattern_without_period.findall(s): the chains of words, blanks included
RECURSIVE FindAllWithoutPeriod(_, _)
FindAllWithoutPeriod(s, i) ==
    IF i > Len(s) THEN <<>>
    ELSE IF IsWordToken(s[i])
         THEN <<SubSeq(s, i, ChainEnd(s, i) - 1)>>
              \o FindAllWithoutPeriod(s, ChainEnd(s, i))
         ELSE FindAllWithoutPeriod(s, i + 1)

\* countries.split(): the words between the blanks
RECURSIVE Split(_)
Split(countries) ==
    IF countries = <<>> THEN <<>>
    ELSE IF countries[1].k = " " THEN Split(Tail(countries))
    ELSE LET e == RunEnd(countries, 1)
         IN <<SubSeq(countries, 1, e - 1)>> \o Split(SubSeq(countries, e, Len(countries)))

\* a two-digit end year read as a year of the twentieth century
ExpandEndYearFixedCentury(start_year, end_year) ==
    IF end_year.w = 2 THEN 1900 + end_year.v ELSE end_year.v

\* if len(end_year) == 2: int(start_year[:2]) * 100 + int(end_year)
ExpandEndYear(start_year, end_year) ==
    IF end_year.w = 2
    THEN FirstDigits(start_year, 2).v * 100 + end_year.v
    ELSE end_year.v

\* the dict appended for one match: kokuseki = U+56FD U+7C4D,
\* kaishinen = U+958B U+59CB U+5E74, shuryonen = U+7D42 U+4E86 U+5E74
PeriodRecord(m) ==
    [kokuseki |-> Split(m.countries),
     kaishinen |-> m.start_year.v,
     shuryonen |-> ExpandEndYear(m.start_year, m.end_year)]

MapSeq(s, Op(_)) == [i \in 1..Len(s) |-> Op(s[i])]

normalize_nationality_info(nationality_info) ==
    LET matches_with_period == FindAllWithPeriod(nationality_info)
        matches_without_period == FindAllWithoutPeriod(nationality_info, 1)
    IN IF matches_with_period # <<>>
       THEN MapSeq(matches_with_period, PeriodRecord)
       ELSE <<[kokuseki |-> matches_without_period]>>

Hyphen == Sym("-")
Countries == {"Doitsu", "Suisu"}
CountryLists == {<<Sym(c)>> : c \in Countries} \cup {<<Sym("Doitsu"), Blank, Sym("Suisu")>>}
StartYears == {1879, 1996}
EndYears == {D(96, 2), D(5, 2), D(1901, 4), D(189, 3), D(19011, 5)}

\* "<names> <start>-<end>"
PeriodGroup(g) == g.names \o <<Blank, D(g.start, 4), Hyphen, g.end>>
PeriodGroups == [names : CountryLists, start : StartYears, end : EndYears]

\* groups joined by one blank
RECURSIVE JoinGroups(_)
JoinGroups(gs) ==
    IF gs = <<>> THEN <<>>
    ELSE IF Len(gs) = 1 THEN PeriodGroup(gs[1])
    ELSE PeriodGroup(gs[1]) \o <<Blank>> \o JoinGroups(Tail(gs))

GroupLists == SeqsUpTo(PeriodGroups, MaxGroups) \ {<<>>}

\* strings without a period group: names alone, a lone year, two blanks
\* before the years, a start year of five digits, nothing
NoPeriodStrings ==
    {<<>>} \cup CountryLists
    \cup {n \o <<Blank, D(1879, 4)>> : n \in CountryLists}
    \cup {n \o <<Blank, Blank, D(1879, 4), Hyphen, D(96, 2)>> : n \in CountryLists}
    \cup {n \o <<Blank, D(18790, 5), Hyphen, D(96, 2)>> : n \in CountryLists}

NationalityStrings == {JoinGroups(gs) : gs \in GroupLists} \cup NoPeriodStrings

LocationChars == {Sym(c) : c \in {"tou", "kyou", "to", "oo", "saka", "fu", "eki"}}
Locations == SeqsUpTo(LocationChars, MaxLocationLen)

StandardizeLocation ==
    /\ input.s \in Locations
    /\ call' = [op |-> "standardize_location"]
    /\ ret' = Ok(standardize_location(input.s))
    /\ UNCHANGED <<df_timeline, input, scraper, fetched, df_network, graph, processor, batch>>

NormalizeNationalityInfo ==
    /\ input.s \in NoPeriodStrings \/ (input.t # <<>> /\ input.s = JoinGroups(input.t))
    /\ call' = [op |-> "normalize_nationality_info"]
    /\ ret' = Ok(normalize_nationality_info(input.s))
    /\ UNCHANGED <<df_timeline, input, scraper, fetched, df_network, graph, processor, batch>>

NextFields ==
    \/ StandardizeLocation
    \/ NormalizeNationalityInfo

InitFields ==
    /\ df_timeline = NoTable
    \* t holds the groups a string of period groups was written from
    /\ input \in {[s |-> v, t |-> <<>>] : v \in Locations \cup NoPeriodStrings}
                 \cup {[s |-> JoinGroups(gs), t |-> gs] : gs \in GroupLists}
    /\ call = NoCall
    /\ batch = NoBatch
    /\ ret = NoRet
    /\ scraper = NewScraper
    /\ fetched = FALSE
    /\ df_network = NoNetwork
    /\ graph = NoGraph
    /\ processor = NewProcessor

SpecFields == InitFields /\ [][NextFields]_vars

-----------------------------------------------------------------------------
(* Scraper (src/core/scraper.py).                                          *)
(*                                                                         *)
(* page_content and soup hold a page: what BeautifulSoup finds in the      *)
(* fetched HTML, that is the rows of the infobox table, the sibling        *)
(* elements of the article body (heading divs and paragraphs) and the img  *)
(* tags.  A page of kind "none" is None and one of kind "empty" is "".     *)
(* Heading and cell texts are sequences of words:                          *)
(*   namae = U+540D U+524D (the name key), seitan = U+751F U+8A95,         *)
(*   shogai = U+751F U+6DAF, chosaku = U+8457 U+4F5C, "[henshu]" = the     *)
(*   section edit link, "[1]" = a footnote mark inside a sup tag,          *)
(*   zen_AB = the letters AB in full width, AB = the same in half width.   *)

MaxElements == 4    \* sibling elements of a page body

EmptyPage == [NoPage EXCEPT !.kind = "empty"]

\* `if not self.page_content`, taken for None and for ""
ContentMissingById(s) == ~s.page_id.some
ContentMissing(s) == s.page_content.kind \in {"none", "empty"}

\* fetch_page_data for one response of the API
fetch_page_data(s, r) ==
    LET failed == [s EXCEPT !.page_id = None]
        stored == IF r.etag \/ r.last_modified
                  THEN {h \in {"etag", "last-modified"} :
                            \/ h = "etag" /\ r.etag
                            \/ h = "last-modified" /\ r.last_modified}
                  ELSE s.cache_headers
        seen == [s EXCEPT !.cache_headers = stored]
    IN  CASE r.status = "error" -> [s |-> failed, ret |-> Raise("ValueError"), stored |-> FALSE]
          [] r.status = "304" -> [s |-> s, ret |-> Ok(<<>>), stored |-> FALSE]
          [] r.body \in {"invalid_json", "api_error", "no_parse"} ->
                [s |-> [seen EXCEPT !.page_id = None], ret |-> Raise("ValueError"), stored |-> FALSE]
          [] r.body = "no_pageid" -> [s |-> seen, ret |-> Raise("KeyError"), stored |-> FALSE]
          [] r.body = "no_text" ->
                [s |-> [seen EXCEPT !.page_id = Some(r.pageid)], ret |-> Raise("KeyError"), stored |-> FALSE]
          [] OTHER ->
                [s |-> [seen EXCEPT !.page_id = Some(r.pageid), !.page_content = r.page],
                 ret |-> Ok(<<>>), stored |-> TRUE]

\* cell.find_all(UNNECESSARY_TAGS) decomposed, then the text normalised
extract_text_from_cell(td) == SelectSeq(td, LAMBDA w : w # "[1]")

extract_infobox_header_no_fallback(infobox, title) ==
    IF infobox.rows = <<>> THEN <<title>>
    ELSE IF infobox.rows[1].has_th THEN infobox.rows[1].th ELSE <<>>

extract_infobox_header(infobox, title) ==
    IF infobox.rows = <<>> THEN <<title>>
    ELSE IF infobox.rows[1].has_th THEN infobox.rows[1].th ELSE <<title>>

\* a dict keyed by the header text; a later row replaces an earlier one
RECURSIVE extract_infobox_rows_data(_)
extract_infobox_rows_data(rows) ==
    IF rows = <<>> THEN <<>>
    ELSE LET n == Len(rows)
             row == rows[n]
             before == extract_infobox_rows_data(SubSeq(rows, 1, n - 1))
         IN  IF row.has_th /\ row.has_td /\ row.th # <<>>
             THEN (row.th[1] :> extract_text_from_cell(row.td)) @@ before
             ELSE before

extract_infobox_data(s) ==
    IF ContentMissing(s) THEN [s |-> s, ret |-> Raise("ValueError")]
    ELSE LET soup == s.page_content
             infobox == soup.infobox
             data == IF infobox.present
                     THEN extract_infobox_rows_data(infobox.rows)
                          @@ ("namae" :> extract_infobox_header(infobox, s.page_title))
                     ELSE ("namae" :> <<s.page_title>>)
         IN  [s |-> [s EXCEPT !.soup = soup], ret |-> Ok(data)]

extract_image_data(s) ==
    IF ContentMissing(s) THEN [s |-> s, ret |-> Raise("ValueError")]
    ELSE LET soup == IF s.soup.kind = "none" THEN s.page_content ELSE s.soup
         IN  [s |-> [s EXCEPT !.soup = soup],
              ret |-> Ok(SelectSeq(soup.images, LAMBDA img : img.src # ""))]

\* the sup tags of the soup are decomposed in place
remove_unnecessary_elements(soup) ==
    [soup EXCEPT !.infobox.rows =
        [i \in 1..Len(soup.infobox.rows) |->
            [soup.infobox.rows[i] EXCEPT !.td = extract_text_from_cell(@)]]]

\* Config has no IGNORE_CLASSES: the third loop of _remove_unnecessary_elements
\* raises AttributeError once the tags are removed
extract_text(s) ==
    IF ContentMissing(s) THEN [s |-> s, ret |-> Raise("ValueError")]
    ELSE LET soup == IF s.soup.kind = "none" THEN s.page_content ELSE s.soup
         IN  [s |-> [s EXCEPT !.soup = remove_unnecessary_elements(soup)],
              ret |-> Raise("AttributeError")]

-----------------------------------------------------------------------------
(* The section extractor: a walk over the sibling elements.  An element is *)
(* [name, level, text]: a heading div of class mw-headingN holding an hN   *)
(* tag (level N in 2..4), or a p or a figure (level 0).  The text of a     *)
(* section, its paragraphs joined by newlines, is the sequence of them.    *)
(*   honbun = U+672C U+6587, zu = U+56F3.                                  *)

\* heading_div.get_text(strip=True): the title and the text of the edit link
DivText(soup, i) ==
    soup.elements[i].text \o (IF soup.editlinks THEN <<"[henshu]">> ELSE <<>>)

\* _normalize_text, _remove_unnecessary_chars, _normalize_spacing, convert_to_fullwidth
clean_word(w) == IF w = "zen_AB" THEN "AB" ELSE w
clean_text(text) ==
    LET kept == SelectSeq(text, LAMBDA w : w \notin {"[henshu]", "[1]"})
    IN  [i \in 1..Len(kept) |-> clean_word(kept[i])]

is_h2_heading(el) == el.level = 2
is_h3_heading(el) == el.level = 3
is_h4_heading(el) == el.level = 4
is_next_heading_level(sibling, current) ==
    sibling.level # 0 /\ current.level # 0 /\ sibling.level <= current.level

\* what one content sibling adds to the text of the section: a sub-heading
\* gives a sub-section and a figure an item headed "Figure", both left out
\* of the join; a paragraph element gives its text unless it is empty
SiblingText(el) ==
    IF is_h3_heading(el) \/ is_h4_heading(el) THEN <<>>
    ELSE IF el.name = "figure" THEN <<>>
    ELSE IF el.text # <<>> THEN <<el.text>> ELSE <<>>

\* ContentTexts ending at the first heading of any level
RECURSIVE ContentTextsUpToAnyHeading(_, _, _)
ContentTextsUpToAnyHeading(soup, i, j) ==
    IF j > Len(soup.elements) \/ soup.elements[j].level # 0
    THEN <<>>
    ELSE SiblingText(soup.elements[j]) \o ContentTextsUpToAnyHeading(soup, i, j + 1)

\* the texts of the siblings from element j up to the next heading of the
\* same or a higher level
RECURSIVE ContentTexts(_, _, _)
ContentTexts(soup, i, j) ==
    IF j > Len(soup.elements) \/ is_next_heading_level(soup.elements[j], soup.elements[i])
    THEN <<>>
    ELSE SiblingText(soup.elements[j]) \o ContentTexts(soup, i, j + 1)

SectionPathWithOwn(cleaned_category_path) == cleaned_category_path
SectionPath(cleaned_category_path) ==
    SubSeq(cleaned_category_path, 1, Len(cleaned_category_path) - 1)

extract_section_content_with_category(soup, i, category_path) ==
    LET heading_text == soup.elements[i].text
        path == category_path \o <<heading_text>>
        cleaned_category_path == [k \in 1..Len(path) |-> clean_text(path[k])]
    IN  [category_texts |-> SectionPath(cleaned_category_path),
         heading_level |-> soup.elements[i].level,
         heading_text |-> heading_text,
         text |-> ContentTexts(soup, i, i + 1)]

\* the loop of _extract_h4_sections from sibling j on
RECURSIVE extract_h4_sections(_, _, _)
extract_h4_sections(soup, j, current_category_path) ==
    IF j > Len(soup.elements) \/ is_h3_heading(soup.elements[j]) THEN <<>>
    ELSE (IF is_h4_heading(soup.elements[j])
          THEN <<extract_section_content_with_category(soup, j, current_category_path)>>
          ELSE <<>>)
         \o extract_h4_sections(soup, j + 1, current_category_path)

\* extract_h3_sections with the h4 sections behind all h3 sections
RECURSIVE extract_h3_sections_h4_last(_, _, _)
extract_h3_sections_h4_last(soup, j, current_category_path) ==
    IF j > Len(soup.elements) \/ is_h2_heading(soup.elements[j]) THEN <<>>
    ELSE (IF is_h3_heading(soup.elements[j])
          THEN <<extract_section_content_with_category(soup, j, current_category_path)>>
          ELSE <<>>)
         \o extract_h3_sections_h4_last(soup, j + 1, current_category_path)
         \o (IF is_h3_heading(soup.elements[j])
             THEN extract_h4_sections(soup, j + 1,
                                      current_category_path \o <<DivText(soup, j)>>)
             ELSE <<>>)

\* the loop of _extract_h3_sections from sibling j on
RECURSIVE extract_h3_sections(_, _, _)
extract_h3_sections(soup, j, current_category_path) ==
    IF j > Len(soup.elements) \/ is_h2_heading(soup.elements[j]) THEN <<>>
    ELSE (IF is_h3_heading(soup.elements[j])
          THEN <<extract_section_content_with_category(soup, j, current_category_path)>>
               \o extract_h4_sections(soup, j + 1,
                                      current_category_path \o <<DivText(soup, j)>>)
          ELSE <<>>)
         \o extract_h3_sections(soup, j + 1, current_category_path)

\* the loop of _extract_headings_and_body over the h2 heading divs, from element i on
RECURSIVE HeadingsLoop(_, _)
HeadingsLoop(soup, i) ==
    IF i > Len(soup.elements) THEN <<>>
    ELSE (IF is_h2_heading(soup.elements[i])
          THEN <<extract_section_content_with_category(soup, i, <<>>)>>
               \o extract_h3_sections(soup, i + 1, <<DivText(soup, i)>>)
          ELSE <<>>)
         \o HeadingsLoop(soup, i + 1)

extract_headings_and_body(soup) == HeadingsLoop(soup, 1)

\* Config.EXCLUDED_SECTION_KEYWORDS
excluded_section_keywords ==
    {"chosaku", "sankobunken", "kanrenbunken", "sakuhin", "shoshijoho", "senshu",
     "zenshu", "kyocho", "kyakuchu", "chushaku", "shutten", "kanrenkomoku"}

\* `keyword in heading_text`: a keyword is one word of the model
ContainsKeyword(heading_text) ==
    \E k \in 1..Len(heading_text) :
        \E keyword \in excluded_section_keywords :
            heading_text[k] = keyword

\* the text _remove_excluded_sections tests: the last entry of the path if
\* there is one, the section's own heading otherwise
ExclusionText(section) ==
    IF section.category_texts # <<>>
    THEN section.category_texts[Len(section.category_texts)]
    ELSE section.heading_text

remove_excluded_sections(sections) ==
    SelectSeq(sections, LAMBDA section : ~ContainsKeyword(ExclusionText(section)))

-----------------------------------------------------------------------------
(* The scraper operations as actions.                                      *)

PhotoRow == [has_th |-> FALSE, th |-> <<>>, has_td |-> TRUE, td |-> <<"photo">>]
HeaderRow == [has_th |-> TRUE, th |-> <<"Albert">>, has_td |-> FALSE, td |-> <<>>]
BlankKeyRow == [has_th |-> TRUE, th |-> <<>>, has_td |-> TRUE, td |-> <<"Ulm">>]
NameRow == [has_th |-> TRUE, th |-> <<"namae">>, has_td |-> TRUE, td |-> <<"Albert", "[1]">>]
BirthRow == [has_th |-> TRUE, th |-> <<"seitan">>, has_td |-> TRUE, td |-> <<"Ulm", "[1]">>]
OtherBirthRow == [has_th |-> TRUE, th |-> <<"seitan">>, has_td |-> TRUE, td |-> <<"Bern">>]

InfoboxTables ==
    {<<>>, <<PhotoRow>>, <<HeaderRow>>, <<HeaderRow, BirthRow>>, <<PhotoRow, BirthRow>>,
     <<PhotoRow, NameRow>>, <<BlankKeyRow, BirthRow>>, <<BirthRow, OtherBirthRow>>}

Images == {<<>>, <<[src |-> "a.jpg", alt |-> "a"], [src |-> "", alt |-> "b"]>>}

Html(infobox, elements, editlinks, images) ==
    [kind |-> "html", infobox |-> infobox, elements |-> elements,
     editlinks |-> editlinks, images |-> images]

ScraperPages ==
    {EmptyPage}
    \cup {Html([present |-> FALSE, rows |-> <<>>], <<>>, FALSE, i) : i \in Images}
    \cup {Html([present |-> TRUE, rows |-> r], <<>>, FALSE, <<>>) : r \in InfoboxTables}

Responses ==
    {[status |-> "error", etag |-> FALSE, last_modified |-> FALSE, body |-> "none",
      pageid |-> 0, page |-> NoPage],
     [status |-> "304", etag |-> FALSE, last_modified |-> FALSE, body |-> "none",
      pageid |-> 0, page |-> NoPage]}
    \cup {[status |-> "200", etag |-> e, last_modified |-> FALSE, body |-> b,
           pageid |-> 736, page |-> NoPage] :
            e \in BOOLEAN, b \in {"invalid_json", "api_error", "no_parse", "no_pageid", "no_text"}}
    \cup {[status |-> "200", etag |-> e, last_modified |-> m, body |-> "ok",
           pageid |-> 736, page |-> p] :
            e \in BOOLEAN, m \in BOOLEAN, p \in ScraperPages}

FetchPageData ==
    \E r \in Responses :
        LET out == fetch_page_data(scraper, r)
        IN  /\ call' = [op |-> "fetch_page_data", status |-> r.status]
            /\ scraper' = out.s
            /\ ret' = out.ret
            /\ fetched' = (fetched \/ out.stored)
            /\ UNCHANGED <<df_timeline, input, df_network, graph, processor, batch>>

ExtractInfoboxData ==
    LET out == extract_infobox_data(scraper)
    IN  /\ call' = [op |-> "extract_infobox_data"]
        /\ scraper' = out.s
        /\ ret' = out.ret
        /\ UNCHANGED <<df_timeline, input, fetched, df_network, graph, processor, batch>>

ExtractImageData ==
    LET out == extract_image_data(scraper)
    IN  /\ call' = [op |-> "extract_image_data"]
        /\ scraper' = out.s
        /\ ret' = out.ret
        /\ UNCHANGED <<df_timeline, input, fetched, df_network, graph, processor, batch>>

ExtractText ==
    LET out == extract_text(scraper)
    IN  /\ call' = [op |-> "extract_text"]
        /\ scraper' = out.s
        /\ ret' = out.ret
        /\ UNCHANGED <<df_timeline, input, fetched, df_network, graph, processor, batch>>

NextScraper == FetchPageData \/ ExtractInfoboxData \/ ExtractImageData \/ ExtractText

InitScraper ==
    /\ df_timeline = NoTable
    /\ input = NoInput
    /\ call = NoCall
    /\ batch = NoBatch
    /\ ret = NoRet
    /\ scraper = NewScraper
    /\ fetched = FALSE
    /\ df_network = NoNetwork
    /\ graph = NoGraph
    /\ processor = NewProcessor

SpecScraper == InitScraper /\ [][NextScraper]_vars

\* the two section methods called on a parsed page
ExtractHeadingsAndBody ==
    /\ scraper.soup.kind = "html"
    /\ call' = [op |-> "_extract_headings_and_body"]
    /\ ret' = Ok(extract_headings_and_body(scraper.soup))
    /\ UNCHANGED <<df_timeline, input, scraper, fetched, df_network, graph, processor, batch>>

RemoveExcludedSections ==
    /\ scraper.soup.kind = "html"
    /\ call' = [op |-> "_remove_excluded_sections"]
    /\ ret' = Ok(remove_excluded_sections(extract_headings_and_body(scraper.soup)))
    /\ UNCHANGED <<df_timeline, input, scraper, fetched, df_network, graph, processor, batch>>

NextSections == ExtractHeadingsAndBody \/ RemoveExcludedSections

Titles == {<<"shogai">>, <<"zen_AB", "chosaku">>}
Elements ==
    {[name |-> "div", level |-> l, text |-> t] : l \in {2, 3, 4}, t \in Titles}
    \cup {[name |-> "p", level |-> 0, text |-> <<"honbun">>],
          [name |-> "figure", level |-> 0, text |-> <<"zu">>]}
SectionPages ==
    {Html([present |-> FALSE, rows |-> <<>>], e, l, <<>>) :
        e \in UNION {[1..m -> Elements] : m \in 0..MaxElements}, l \in BOOLEAN}

\* a scraper that has fetched and parsed one of the pages
InitSections ==
    /\ df_timeline = NoTable
    /\ input = NoInput
    /\ call = NoCall
    /\ batch = NoBatch
    /\ ret = NoRet
    /\ \E p \in SectionPages :
         scraper = [NewScraper EXCEPT !.page_id = Some(736), !.page_content = p, !.soup = p]
    /\ fetched = TRUE
    /\ df_network = NoNetwork
    /\ graph = NoGraph
    /\ processor = NewProcessor

SpecSections == InitSections /\ [][NextSections]_vars

-----------------------------------------------------------------------------
(* Analyzer.analyze_network (src/analyzer.py).  df_network is a table of   *)
(* rows [source, target, relation]; the graph built from it is undirected, *)
(* an edge being the set of its one or two end points.                     *)

MaxEdges == 2       \* rows of a relation table

NetworkTable(rows) == [isNone |-> FALSE, rows |-> rows]
NoTarget == [some |-> FALSE, v |-> ""]
Target(p) == [some |-> TRUE, v |-> p]

\* list(set(...)): the elements in some order, each once
RECURSIVE ListOfSet(_)
ListOfSet(S) ==
    IF S = {} THEN <<>>
    ELSE LET x == CHOOSE y \in S : TRUE IN <<x>> \o ListOfSet(S \ {x})

SeqToSet(s) == {s[i] : i \in 1..Len(s)}

\* nx.from_pandas_edgelist(..., create_using=nx.Graph()): the attribute of an
\* edge is the relation of the last row that names it
from_pandas_edgelist(rows) ==
    LET ends(i) == {rows[i].source, rows[i].target}
        last(e) == CHOOSE i \in 1..Len(rows) :
                       ends(i) = e /\ \A j \in 1..Len(rows) : ends(j) = e => j <= i
    IN  [isNone |-> FALSE,
         nodes |-> UNION {ends(i) : i \in 1..Len(rows)},
         edges |-> {[ends |-> ends(i), relation |-> rows[last(ends(i))].relation] :
                        i \in 1..Len(rows)}]

\* the targets of the rows whose source is the person
RECURSIVE TargetsOfSource(_, _, _)
TargetsOfSource(rows, person, seen) ==
    IF rows = <<>> THEN <<>>
    ELSE LET row == Head(rows)
             found == row.source = person /\ row.target \notin seen
         IN  IF found
             THEN <<row.target>> \o TargetsOfSource(Tail(rows), person, seen \cup {row.target})
             ELSE TargetsOfSource(Tail(rows), person, seen)

\* list(self.graph.neighbors(target_person)) in the order the edges were added
RECURSIVE NeighborsList(_, _, _)
NeighborsList(rows, person, seen) ==
    IF rows = <<>> THEN <<>>
    ELSE LET row == Head(rows)
             other == IF row.source = person THEN row.target ELSE row.source
             found == person \in {row.source, row.target} /\ other \notin seen
         IN  IF found
             THEN <<other>> \o NeighborsList(Tail(rows), person, seen \cup {other})
             ELSE NeighborsList(Tail(rows), person, seen)

related_persons_of(g, rows, target_person) ==
    IF target_person.some /\ target_person.v # "" /\ target_person.v \in g.nodes
    THEN NeighborsList(rows, target_person.v, {})
    ELSE <<>>

relations_by_type(rows, target_person) ==
    LET types == {rows[i].relation : i \in 1..Len(rows)}
        persons(t) ==
            {p \in UNION {{rows[i].source, rows[i].target} :
                            i \in {k \in 1..Len(rows) : rows[k].relation = t}} :
                ~(target_person.some /\ p = target_person.v)}
    IN  [t \in types |-> ListOfSet(persons(t))]

\* nx.degree_centrality: degree / (n - 1) as a fraction, a self-loop counting
\* twice; every node scores 1 in a graph of one node
degree_centrality(g) ==
    LET n == Cardinality(g.nodes)
        degree(p) == Cardinality({e \in g.edges : p \in e.ends})
                     + Cardinality({e \in g.edges : e.ends = {p}})
    IN  [p \in g.nodes |->
            IF n <= 1 THEN [num |-> 1, den |-> 1] ELSE [num |-> degree(p), den |-> n - 1]]

EmptyNetworkAnalysis ==
    [graph |-> NoGraph, related_persons |-> <<>>, relations_by_type |-> <<>>,
     centrality |-> <<>>]

analyze_network(df, target_person) ==
    IF df.isNone \/ df.rows = <<>>
    THEN [graph |-> NoGraph, keep |-> TRUE, ret |-> Ok(EmptyNetworkAnalysis)]
    ELSE LET g == from_pandas_edgelist(df.rows)
             related_persons == related_persons_of(g, df.rows, target_person)
             unique_related_persons == ListOfSet(SeqToSet(related_persons))
             centrality == IF Cardinality(g.nodes) > 0
                           THEN ("degree_centrality" :> degree_centrality(g))
                           ELSE <<>>
         IN  [graph |-> g, keep |-> FALSE,
              ret |-> Ok([graph |-> g,
                          related_persons |-> unique_related_persons,
                          relations_by_type |-> relations_by_type(df.rows, target_person),
                          centrality |-> centrality])]

Persons == {"Einstein", "Bohr", "Planck"}
Targets == {NoTarget, Target("Einstein"), Target("Bohr"), Target("Curie")}
NetworkRows == [source : Persons, target : Persons, relation : {"shi", "yujin"}]

AnalyzeNetwork ==
    \E target_person \in Targets :
        LET out == analyze_network(df_network, target_person)
        IN  /\ call' = [op |-> "analyze_network", target_person |-> target_person]
            /\ ret' = out.ret
            /\ graph' = IF out.keep THEN graph ELSE out.graph
            /\ UNCHANGED <<df_timeline, input, scraper, fetched, df_network, processor, batch>>

NextNetwork == AnalyzeNetwork

InitNetwork ==
    /\ df_timeline = NoTable
    /\ input = NoInput
    /\ call = NoCall
    /\ batch = NoBatch
    /\ ret = NoRet
    /\ scraper = NewScraper
    /\ fetched = FALSE
    /\ df_network \in {NoNetwork}
                      \cup {NetworkTable(r) : r \in UNION {[1..m -> NetworkRows] : m \in 0..MaxEdges}}
    /\ graph = NoGraph
    /\ processor = NewProcessor

SpecNetwork == InitNetwork /\ [][NextNetwork]_vars

-----------------------------------------------------------------------------
(* DataProcessor.extract_relations (src/core/data_processor.py).           *)
(*                                                                         *)
(* A name is the sequence of its characters (a kanji is written as its     *)
(* reading: yama da ta ro = U+5C71 U+7530 U+592A U+90CE).  entities holds  *)
(* the keys of self.entities and the keys of self.entities[jinmei] in      *)
(* insertion order; sentences holds, for each sentence of the text, the    *)
(* PERSON mentions the NER model finds in it, in order.                    *)

MaxNames == 2       \* extracted person names
MaxMentions == 3    \* PERSON mentions of the sentence

Threshold == 80

\* difflib.SequenceMatcher.find_longest_match: the longest common block, the
\* earliest in a and then in b among the longest; size 0 if there is none
LongestMatch(a, b) ==
    LET blocks == {m \in [i : 1..Len(a), j : 1..Len(b), k : 1..Len(a)] :
                      /\ m.i + m.k - 1 <= Len(a)
                      /\ m.j + m.k - 1 <= Len(b)
                      /\ \A d \in 0..(m.k - 1) : a[m.i + d] = b[m.j + d]}
        better(m, n) == \/ m.k > n.k
                        \/ m.k = n.k /\ m.i < n.i
                        \/ m.k = n.k /\ m.i = n.i /\ m.j <= n.j
    IN  IF blocks = {} THEN [i |-> 0, j |-> 0, k |-> 0]
        ELSE CHOOSE m \in blocks : \A n \in blocks : better(m, n)

\* get_matching_blocks: the blocks (position in a, position in b, size),
\* positions counted from 0 as difflib does
RECURSIVE MatchingBlocks(_, _, _, _)
MatchingBlocks(a, b, ao, bo) ==
    LET m == LongestMatch(a, b)
    IN  IF m.k = 0 THEN {}
        ELSE {[i |-> ao + m.i - 1, j |-> bo + m.j - 1, k |-> m.k]}
             \cup MatchingBlocks(SubSeq(a, 1, m.i - 1), SubSeq(b, 1, m.j - 1), ao, bo)
             \cup MatchingBlocks(SubSeq(a, m.i + m.k, Len(a)), SubSeq(b, m.j + m.k, Len(b)),
                                 ao + m.i + m.k - 1, bo + m.j + m.k - 1)

RECURSIVE SumSizes(_)
SumSizes(blocks) ==
    IF blocks = {} THEN 0
    ELSE LET m == CHOOSE n \in blocks : TRUE IN m.k + SumSizes(blocks \ {m})

\* int(round(100 * SequenceMatcher(None, a, b).ratio()))
fuzz_ratio(a, b) ==
    IF Len(a) + Len(b) = 0 THEN 100
    ELSE (400 * SumSizes(MatchingBlocks(a, b, 0, 0)) + (Len(a) + Len(b)))
         \div (2 * (Len(a) + Len(b)))

\* fuzz.partial_ratio: the best ratio of the shorter string against the
\* windows of the longer one that the matching blocks line up
partial_ratio(s1, s2) ==
    IF Len(s1) = 0 \/ Len(s2) = 0 THEN 0
    ELSE LET shorter == IF Len(s1) <= Len(s2) THEN s1 ELSE s2
             longer == IF Len(s1) <= Len(s2) THEN s2 ELSE s1
             blocks == MatchingBlocks(shorter, longer, 0, 0)
                       \cup {[i |-> Len(shorter), j |-> Len(longer), k |-> 0]}
             start(m) == IF m.j - m.i > 0 THEN m.j - m.i ELSE 0
             window(m) == SubSeq(longer, start(m) + 1,
                                 IF start(m) + Len(shorter) <= Len(longer)
                                 THEN start(m) + Len(shorter) ELSE Len(longer))
             scores == {fuzz_ratio(shorter, window(m)) : m \in blocks}
         IN  CHOOSE r \in scores : \A q \in scores : q <= r

NoName == <<>>

\* the first extracted name whose partial ratio with the mention reaches the
\* threshold, NoName if none does
RECURSIVE Candidate(_, _)
Candidate(person_name, person_name_list) ==
    IF person_name_list = <<>> THEN NoName
    ELSE IF partial_ratio(person_name, Head(person_name_list)) >= Threshold
         THEN Head(person_name_list)
         ELSE Candidate(person_name, Tail(person_name_list))

\* _determine_relation_type is a stub that returns None
NoRelation == "None"
determine_relation_type(person1, person2, doc) == NoRelation

\* the two nested loops over the mentions of one sentence, from pair (i, j) on
RECURSIVE PairsLoop(_, _, _, _)
PairsLoop(mentions, person_name_list, i, j) ==
    IF i > Len(mentions) THEN <<>>
    ELSE IF j > Len(mentions) THEN PairsLoop(mentions, person_name_list, i + 1, i + 2)
    ELSE LET person1_candidate == Candidate(mentions[i], person_name_list)
             person2_candidate == Candidate(mentions[j], person_name_list)
             relation_type == determine_relation_type(person1_candidate, person2_candidate, mentions)
             found == /\ person1_candidate # NoName
                      /\ person2_candidate # NoName
                      /\ relation_type # NoRelation
         IN  (IF found THEN <<<<person1_candidate, person2_candidate, relation_type>>>> ELSE <<>>)
             \o PairsLoop(mentions, person_name_list, i, j + 1)

RECURSIVE SentencesLoop(_, _)
SentencesLoop(sentences, person_name_list) ==
    IF sentences = <<>> THEN <<>>
    ELSE (IF Len(Head(sentences)) < 2 THEN <<>>
          ELSE PairsLoop(Head(sentences), person_name_list, 1, 2))
         \o SentencesLoop(Tail(sentences), person_name_list)

extract_relations(entities, sentences) ==
    IF entities.keys = {} THEN <<>>
    ELSE IF "jinmei" \notin entities.keys THEN <<>>
    ELSE SentencesLoop(sentences, entities.person_names)

ExtractRelations ==
    /\ call' = [op |-> "extract_relations"]
    /\ ret' = Ok(extract_relations(processor.entities, processor.sentences))
    /\ UNCHANGED <<df_timeline, input, scraper, fetched, df_network, graph, processor, batch>>

NextRelations == ExtractRelations

Names ==
    {<<"yama", "da", "ta", "ro">>, <<"yama", "da">>, <<"ta", "ro">>,
     <<"M", "a", "r", "i", "e">>, <<"M", "a", "r", "i", "a">>,
     <<"K", "a", "r", "l">>, <<"C", "a", "r", "l">>}

\* dict keys: no name twice
NameLists ==
    {l \in UNION {[1..m -> Names] : m \in 0..MaxNames} :
        \A i, j \in 1..Len(l) : l[i] = l[j] => i = j}

EntitySets ==
    {[keys |-> {}, person_names |-> <<>>], [keys |-> {"meishi"}, person_names |-> <<>>]}
    \cup {[keys |-> {"jinmei", "meishi"}, person_names |-> l] : l \in NameLists}

InitRelations ==
    /\ df_timeline = NoTable
    /\ input = NoInput
    /\ call = NoCall
    /\ batch = NoBatch
    /\ ret = NoRet
    /\ scraper = NewScraper
    /\ fetched = FALSE
    /\ df_network = NoNetwork
    /\ graph = NoGraph
    /\ \E e \in EntitySets, m \in UNION {[1..n -> Names] : n \in 0..MaxMentions} :
         processor = [NewProcessor EXCEPT !.entities = e, !.sentences = <<m>>]

SpecRelations == InitRelations /\ [][NextRelations]_vars

-----------------------------------------------------------------------------
(* DataProcessor.extract_timeline (src/data_processor.py).  The text is a  *)
(* token sequence; maru = U+3002 and "." = U+FF0E end a sentence.  The     *)
(* pattern is followed on texts in which the year, an optional date and an *)
(* optional blank are followed by a word, as the sentences below are.      *)

MaxSentences == 2   \* sentences of the text

Maru == Sym("maru")
Period == Sym(".")
IsStop(t) == t \in {Maru, Period}

\* the character class of group 2: digits, the month and the day sign
IsDateChar(t) == IsDigits(t) \/ t \in {Gatsu, Nichi}
\* the character class of alternative 2: the characters of the era names
EraLastChar(t) ==
    CASE t = Sym("Meiji") -> "ji"
      [] t = Sym("Taisho") -> "sho"
      [] t = Sym("Showa") -> "wa"
      [] t = Sym("Heisei") -> "sei"
      [] t = Sym("Reiwa") -> "wa"
      [] OTHER -> ""

\* the first position from p on that holds no character of group 2
RECURSIVE SkipDateChars(_, _)
SkipDateChars(text, p) ==
    IF p <= Len(text) /\ IsDateChar(text[p]) THEN SkipDateChars(text, p + 1) ELSE p

\* the first sentence end after position q, 0 if there is none
RECURSIVE FirstStop(_, _)
FirstStop(text, r) ==
    IF r > Len(text) THEN 0
    ELSE IF IsStop(text[r]) THEN r ELSE FirstStop(text, r + 1)

\* str.strip()
RECURSIVE Strip(_)
Strip(s) ==
    IF s # <<>> /\ IsBlank(Head(s)) THEN Strip(Tail(s))
    ELSE IF s # <<>> /\ IsBlank(s[Len(s)]) THEN Strip(SubSeq(s, 1, Len(s) - 1))
    ELSE s

\* a year string: the characters before the digits, the digits, the year sign
YearString(era, v, w) == [era |-> era, v |-> v, w |-> w]

\* group 1 for the digits at position i: four digits are taken alone (the
\* last four of a longer run); one or two digits take the era character
\* before them, if there is one
MatchedYear(text, i, from) ==
    LET run == text[i]
        era == IF i > from THEN EraLastChar(text[i - 1]) ELSE ""
    IN  IF run.w >= 4 THEN YearString(<<>>, run.v % Pow10(4), 4)
        ELSE IF run.w <= 2 /\ era # "" THEN YearString(<<era>>, run.v, run.w)
        ELSE YearString(<<>>, run.v, run.w)

\* one match of the pattern with its year at position i, after position from
MatchAt(text, i, from) ==
    IF ~(i + 1 <= Len(text) /\ IsDigits(text[i]) /\ text[i + 1] = Nen)
    THEN [found |-> FALSE]
    ELSE LET p1 == IF i + 2 <= Len(text) /\ IsBlank(text[i + 2]) THEN i + 3 ELSE i + 2
             p2 == SkipDateChars(text, p1)
             q == IF p2 <= Len(text) /\ IsBlank(text[p2]) THEN p2 + 1 ELSE p2
             r == IF q > Len(text) \/ text[q] = Maru THEN 0 ELSE FirstStop(text, q + 1)
         IN  IF r = 0 THEN [found |-> FALSE]
             ELSE [found |-> TRUE, year_str |-> MatchedYear(text, i, from),
                   date_str |-> SubSeq(text, p1, p2 - 1),
                   event |-> SubSeq(text, q, r), end |-> r]

\* re.findall: the matches from left to right, none overlapping another
RECURSIVE FindAll(_, _, _)
FindAll(text, i, from) ==
    IF i > Len(text) THEN <<>>
    ELSE LET m == MatchAt(text, i, from)
         IN  IF m.found THEN <<m>> \o FindAll(text, m.end + 1, m.end + 1)
             ELSE FindAll(text, i + 1, from)

\* the era names, character by character, and the year-one sign U+5143
MeijiName == <<"mei", "ji">>
TaishoName == <<"tai", "sho">>
ShowaName == <<"sho", "wa">>
HeiseiName == <<"hei", "sei">>
ReiwaName == <<"rei", "wa">>
GenName == <<"gen">>

\* year_str[:4].isdigit() gives the year.  Otherwise era = year_str[0] is one
\* character, the first of the string, and is compared with the era names
convert_to_ce(year_str) ==
    IF year_str.era = <<>> /\ year_str.w >= 4
    THEN Some(year_str.v \div Pow10(year_str.w - 4))
    ELSE LET era == IF year_str.era # <<>> THEN <<year_str.era[1]>> ELSE <<"digit">>
             year_num == IF era = GenName THEN 1 ELSE year_str.v
         IN  IF era = MeijiName THEN Some(1867 + year_num)
             ELSE IF era = TaishoName THEN Some(1911 + year_num)
             ELSE IF era = ShowaName THEN Some(1925 + year_num)
             ELSE IF era = HeiseiName THEN Some(1988 + year_num)
             ELSE IF era = ReiwaName THEN Some(2018 + year_num)
             ELSE None

RECURSIVE TimelineData(_)
TimelineData(matches) ==
    IF matches = <<>> THEN <<>>
    ELSE LET match == Head(matches)
             year == convert_to_ce(match.year_str)
         IN  (IF ~year.some THEN <<>>
              ELSE <<[year |-> year.v, date |-> Strip(match.date_str),
                      event |-> Strip(match.event)]>>)
             \o TimelineData(Tail(matches))

extract_timeline(text) == TimelineData(FindAll(text, 1, 1))

EraNameChars == {MeijiName, TaishoName, ShowaName, HeiseiName, ReiwaName}
YearStrings ==
    {YearString(e, n, Width(n)) :
        e \in EraNameChars \cup {<<>>, GenName, <<"wa">>}, n \in (1..MaxEraYear) \cup {64}}
    \cup {YearString(<<>>, 1905, 4), YearString(<<>>, 11905, 5), YearString(<<>>, 123, 3)}

ExtractTimeline ==
    LET timeline_data == extract_timeline(processor.text)
    IN  /\ call' = [op |-> "extract_timeline"]
        /\ processor' = [processor EXCEPT !.df_timeline = timeline_data]
        /\ ret' = Ok(timeline_data)
        /\ UNCHANGED <<df_timeline, input, scraper, fetched, df_network, graph, batch>>

\* a call of convert_to_ce with a year string: an era name or the last
\* character of one, the year-one sign or nothing, before one to five digits
ConvertToCe ==
    \E year_str \in YearStrings :
        /\ call' = [op |-> "convert_to_ce", year_str |-> year_str]
        /\ ret' = Ok(convert_to_ce(year_str))
        /\ UNCHANGED <<df_timeline, input, scraper, fetched, df_network, graph, processor, batch>>

NextExtractTimeline == ExtractTimeline \/ ConvertToCe

YearParts ==
    {<<D(1905, 4), Nen>>, <<D(1921, 4), Nen>>, <<D(5, 1), Nen>>,
     <<Sym("Showa"), D(3, 1), Nen>>, <<D(11905, 5), Nen>>}
DateParts == {<<>>, <<D(3, 1), Gatsu, D(14, 2), Nichi>>, <<Blank, D(3, 1), Gatsu>>}
EventParts == {<<Sym("ronbun"), Maru>>, <<Blank, Sym("jusho"), Sym("shiki"), Period>>}
Sentences ==
    {y \o d \o e : y \in YearParts, d \in DateParts, e \in EventParts}
    \cup {<<Sym("umare"), Maru>>}

RECURSIVE Concat(_)
Concat(ss) == IF ss = <<>> THEN <<>> ELSE Head(ss) \o Concat(Tail(ss))

InitExtractTimeline ==
    /\ df_timeline = NoTable
    /\ input = NoInput
    /\ call = NoCall
    /\ batch = NoBatch
    /\ ret = NoRet
    /\ scraper = NewScraper
    /\ fetched = FALSE
    /\ df_network = NoNetwork
    /\ graph = NoGraph
    /\ \E ss \in UNION {[1..n -> Sentences] : n \in 0..MaxSentences} :
         processor = [NewProcessor EXCEPT !.text = Concat(ss)]

SpecExtractTimeline == InitExtractTimeline /\ [][NextExtractTimeline]_vars

-----------------------------------------------------------------------------
(* DataProcessor.extract_entities (src/core/data_processor.py).            *)
(*                                                                         *)
(* A section text is the sequence of its words.  A word carries what the   *)
(* two analysers say of it: pos and label are the part of speech and the   *)
(* entity label GiNZA gives it ("" when it is no entity), person_noun is   *)
(* whether MeCab-IPADIC-NEologd files it under noun, proper noun, person.  *)
(* The categories: meishi = U+540D U+8A5E, jinmei = U+4EBA U+540D,         *)
(* soshiki = U+7D44 U+7E54, chimei = U+5730 U+540D, hizuke = U+65E5 U+4ED8,*)
(* koyu = U+56FA U+6709 U+8868 U+73FE.                                     *)

MaxSections == 2

\* all_entities[category][text] += 1 on a defaultdict of defaultdict(int);
\* the table is keyed by <<category, text>>
Increment(all_entities, category, text) ==
    IF <<category, text>> \in DOMAIN all_entities
    THEN [all_entities EXCEPT ![<<category, text>>] = @ + 1]
    ELSE all_entities @@ (<<category, text>> :> 1)

\* the branch of extract_entities for one entity label
CategoryOf(label) ==
    CASE label = "PERSON" -> "jinmei"
      [] label = "ORG" -> "soshiki"
      [] label \in {"LOC", "GPE"} -> "chimei"
      [] label = "DATE" -> "hizuke"
      [] OTHER -> "koyu"

\* for token in doc: the nouns
RECURSIVE NounsLoop(_, _, _)
NounsLoop(doc, i, all_entities) ==
    IF i > Len(doc) THEN all_entities
    ELSE NounsLoop(doc, i + 1,
                   IF doc[i].pos = "NOUN"
                   THEN Increment(all_entities, "meishi", doc[i].text)
                   ELSE all_entities)

\* for ent in doc.ents: the entities by label
RECURSIVE EntsLoop(_, _, _)
EntsLoop(doc, i, all_entities) ==
    IF i > Len(doc) THEN all_entities
    ELSE EntsLoop(doc, i + 1,
                  IF doc[i].label # ""
                  THEN Increment(all_entities, CategoryOf(doc[i].label), doc[i].text)
                  ELSE all_entities)

\* extract_rule_based_entities_dict: the surfaces of the person nouns, or
\* nothing when the tagger could not be initialised
extract_rule_based_entities_dict(mecab_neologd, text) ==
    IF ~mecab_neologd THEN <<>>
    ELSE LET nodes == SelectSeq(text, LAMBDA node : node.person_noun)
         IN  [i \in 1..Len(nodes) |-> nodes[i].text]

RECURSIVE PersonNamesLoop(_, _, _)
PersonNamesLoop(names, i, all_entities) ==
    IF i > Len(names) THEN all_entities
    ELSE PersonNamesLoop(names, i + 1, Increment(all_entities, "jinmei", names[i]))

\* for i, section in enumerate(headings_and_text): doc = self.nlp(section_text)
RECURSIVE SectionsLoop(_, _, _)
SectionsLoop(sections, i, all_entities) ==
    IF i > Len(sections) THEN all_entities
    ELSE LET doc == sections[i].text_content
         IN  SectionsLoop(sections, i + 1, EntsLoop(doc, 1, NounsLoop(doc, 1, all_entities)))

\* the dictionary pass stands after the loop: section_text is then the text
\* of the last section
extract_entities(p) ==
    IF p.text_data.isNone \/ p.text_data.headings_and_text = <<>>
    THEN Raise("ValueError")
    ELSE LET sections == p.text_data.headings_and_text
             section_text == sections[Len(sections)].text_content
             rule_based_entities_dict ==
                 extract_rule_based_entities_dict(p.mecab_neologd, section_text)
         IN  Ok(PersonNamesLoop(rule_based_entities_dict, 1,
                                SectionsLoop(sections, 1, <<>>)))

ExtractEntities ==
    /\ call' = [op |-> "extract_entities"]
    /\ ret' = extract_entities(processor)
    /\ UNCHANGED <<df_timeline, input, scraper, fetched, df_network, graph, processor, batch>>

NextEntities == ExtractEntities

Word(text, pos, label, person_noun) ==
    [text |-> text, pos |-> pos, label |-> label, person_noun |-> person_noun]

\* a person both analysers know, one only the dictionary knows, one only
\* GiNZA knows, an organisation, a common noun
Einstein == Word("Einstein", "PROPN", "PERSON", TRUE)
Bohr == Word("Bohr", "PROPN", "", TRUE)
Planck == Word("Planck", "PROPN", "PERSON", FALSE)
Daigaku == Word("daigaku", "NOUN", "ORG", FALSE)
Kenkyu == Word("kenkyu", "NOUN", "", FALSE)

SectionTexts ==
    {<<>>, <<Einstein>>, <<Bohr>>, <<Planck, Kenkyu>>, <<Einstein, Einstein>>,
     <<Bohr, Daigaku>>, <<Einstein, Bohr>>}

TextData(sections) == [isNone |-> FALSE, headings_and_text |-> sections]

TextDatas ==
    {NoTextData}
    \cup {TextData([i \in 1..Len(ts) |-> [heading_text |-> "shogai", text_content |-> ts[i]]]) :
            ts \in SeqsUpTo(SectionTexts, MaxSections)}

InitEntities ==
    /\ df_timeline = NoTable
    /\ input = NoInput
    /\ call = NoCall
    /\ batch = NoBatch
    /\ ret = NoRet
    /\ scraper = NewScraper
    /\ fetched = FALSE
    /\ df_network = NoNetwork
    /\ graph = NoGraph
    /\ \E t \in TextDatas, m \in BOOLEAN :
         processor = [NewProcessor EXCEPT !.text_data = t, !.mecab_neologd = m]

SpecEntities == InitEntities /\ [][NextEntities]_vars

-----------------------------------------------------------------------------
(* Scraper._remove_words (src/core/scraper.py).  A text and a word are     *)
(* sequences of characters.                                                *)

MaxPieces == 3

\* word matches text at position i
MatchesAt(text, i, word) ==
    /\ word # <<>>
    /\ i + Len(word) - 1 <= Len(text)
    /\ SubSeq(text, i, i + Len(word) - 1) = word

\* the alternation w1|w2|...: the first word of the list that matches at i,
\* 0 if none does
FirstAlternative(text, i, words_to_remove) ==
    LET matching == {k \in 1..Len(words_to_remove) : MatchesAt(text, i, words_to_remove[k])}
    IN  IF matching = {} THEN 0 ELSE SetMin(matching)

\* re.sub(combined_pattern, "", text): one pass from the left, the text
\* behind a deleted match is scanned from its end on
RECURSIVE ReSub(_, _, _)
ReSub(text, i, words_to_remove) ==
    IF i > Len(text) THEN <<>>
    ELSE LET k == FirstAlternative(text, i, words_to_remove)
         IN  IF k = 0
             THEN <<text[i]>> \o ReSub(text, i + 1, words_to_remove)
             ELSE ReSub(text, i + Len(words_to_remove[k]), words_to_remove)

remove_words(text, words_to_remove) == ReSub(text, 1, words_to_remove)

\* Config.EXCLUDE_WORDS
EXCLUDE_WORDS == <<<<"N", "u", "l", "l">>>>

\* pieces of text and the word lists: the configured one, none, and one with
\* a word that is the beginning of the next
Pieces == {<<"N", "u">>, <<"N", "u", "l", "l">>, <<"l", "l">>, <<"x">>}
WordLists == {<<>>, EXCLUDE_WORDS, <<<<"N", "u">>, <<"N", "u", "l", "l">>>>}

RECURSIVE Flatten(_)
Flatten(ss) == IF ss = <<>> THEN <<>> ELSE ss[1] \o Flatten(Tail(ss))

RemoveWords ==
    /\ input.t \in WordLists
    /\ call' = [op |-> "_remove_words"]
    /\ ret' = Ok(remove_words(input.s, input.t))
    /\ UNCHANGED <<df_timeline, input, scraper, fetched, df_network, graph, processor, batch>>

NextRemoveWords == RemoveWords

InitRemoveWords ==
    /\ df_timeline = NoTable
    /\ input \in {[s |-> Flatten(ps), t |-> ws] : ps \in SeqsUpTo(Pieces, MaxPieces), ws \in WordLists}
    /\ call = NoCall
    /\ batch = NoBatch
    /\ ret = NoRet
    /\ scraper = NewScraper
    /\ fetched = FALSE
    /\ df_network = NoNetwork
    /\ graph = NoGraph
    /\ processor = NewProcessor

SpecRemoveWords == InitRemoveWords /\ [][NextRemoveWords]_vars

-----------------------------------------------------------------------------
(* The runs over several page titles: DataAggregator.save_combined_data    *)
(* (src/core/data_aggregator.py) and the main loop of src/core/scraper.py. *)
(* Each subject gets a new Scraper and one response of the API; only       *)
(* ValueError is caught inside the loop.                                   *)

MaxSubjects == 3

\* the body of the try block of save_combined_data for one subject
collect_subject(r) ==
    LET f == fetch_page_data(NewScraper, r)
        i == extract_infobox_data(f.s)
        t == extract_text(i.s)
        g == extract_image_data(t.s)
    IN  IF f.ret.tag = "raise" THEN f.ret
        ELSE IF i.ret.tag = "raise" THEN i.ret
        ELSE IF t.ret.tag = "raise" THEN t.ret
        ELSE IF g.ret.tag = "raise" THEN g.ret
        \* Scraper has no method extract_additional_table_data
        ELSE Raise("AttributeError")

\* the body of the try block of the main loop for one subject:
\* save_infobox_data, save_text_data, extract_image_data
main_subject(r) ==
    LET f == fetch_page_data(NewScraper, r)
        i == extract_infobox_data(f.s)
        t == extract_text(i.s)
        g == extract_image_data(t.s)
    IN  IF f.ret.tag = "raise" THEN f.ret
        ELSE IF i.ret.tag = "raise" THEN i.ret
        ELSE IF t.ret.tag = "raise" THEN t.ret
        ELSE g.ret

\* for page_title in page_titles: try: ... except ValueError: log
\* outcomes[i] is what the try block does for subject i
RECURSIVE SubjectsLoop(_, _, _)
SubjectsLoop(outcomes, i, combined_data) ==
    IF i > Len(outcomes)
    THEN [batch |-> [processed |-> Len(outcomes), combined_data |-> combined_data,
                     written |-> TRUE],
          ret |-> Ok(<<>>)]
    ELSE LET out == outcomes[i]
         IN  IF out.tag = "ok"
             THEN SubjectsLoop(outcomes, i + 1, Append(combined_data, out.val))
             ELSE IF out.exc = "ValueError"
             THEN SubjectsLoop(outcomes, i + 1, combined_data)
             ELSE [batch |-> [processed |-> i, combined_data |-> combined_data,
                              written |-> FALSE],
                   ret |-> out]

\* the loop, then json.dump(combined_data) into the output file
save_combined_data(responses) ==
    SubjectsLoop([i \in 1..Len(responses) |-> collect_subject(responses[i])], 1, <<>>)

\* the loop alone: the main block writes no combined file
scraper_main(responses) ==
    LET out == SubjectsLoop([i \in 1..Len(responses) |-> main_subject(responses[i])], 1, <<>>)
    IN  [out EXCEPT !.batch.written = FALSE, !.batch.combined_data = <<>>]

\* what the API may answer for a subject: a request error, 304, an API
\* error, a body without text, an empty page, a page with an infobox
BatchResponses ==
    {r \in Responses :
        /\ ~r.etag /\ ~r.last_modified
        /\ r.body \in {"none", "api_error", "no_text", "ok"}
        /\ r.page \in {NoPage, EmptyPage,
                       Html([present |-> TRUE, rows |-> <<HeaderRow, BirthRow>>], <<>>, FALSE, <<>>)}}

SaveCombinedData ==
    \E responses \in SeqsUpTo(BatchResponses, MaxSubjects) \ {<<>>} :
        LET out == save_combined_data(responses)
        IN  /\ call' = [op |-> "save_combined_data", responses |-> responses]
            /\ batch' = out.batch
            /\ ret' = out.ret
            /\ UNCHANGED <<df_timeline, input, scraper, fetched, df_network, graph, processor>>

ScraperMain ==
    \E responses \in SeqsUpTo(BatchResponses, MaxSubjects) \ {<<>>} :
        LET out == scraper_main(responses)
        IN  /\ call' = [op |-> "scraper_main", responses |-> responses]
            /\ batch' = out.batch
            /\ ret' = out.ret
            /\ UNCHANGED <<df_timeline, input, scraper, fetched, df_network, graph, processor>>

NextBatch == SaveCombinedData \/ ScraperMain

InitBatch ==
    /\ df_timeline = NoTable
    /\ input = NoInput
    /\ call = NoCall
    /\ batch = NoBatch
    /\ ret = NoRet
    /\ scraper = NewScraper
    /\ fetched = FALSE
    /\ df_network = NoNetwork
    /\ graph = NoGraph
    /\ processor = NewProcessor

SpecBatch == InitBatch /\ [][NextBatch]_vars

-----------------------------------------------------------------------------
(* The whole model: an Analyzer over any timeline, a new Scraper and a new  *)
(* DataProcessor, and every operation of the model.                        *)

Init == InitTimeline
Next ==
    \/ NextTimeline
    \/ NextNorm
    \/ NextFields
    \/ NextScraper
    \/ NextSections
    \/ NextNetwork
    \/ NextRelations
    \/ NextExtractTimeline
    \/ NextEntities
    \/ NextRemoveWords
    \/ NextBatch
Spec == Init /\ [][Next]_vars

-----------------------------------------------------------------------------
(* Claims about the timeline analysis.                                     *)

Rows == df_timeline.rows
AllIntYears == \A i \in 1..Len(Rows) : Rows[i].year.isInt
EventYears == {Rows[i].year.n : i \in 1..Len(Rows)}

SetMax(S) == CHOOSE x \in S : \A y \in S : y <= x
After(Y, y) == SetMin({z \in Y : z > y})
Before(Y, y) == SetMax({z \in Y : z < y})

\* <<a, b>> is a run of Y: consecutive years of Y from a to b differ by at most 3
IsRun(Y, a, b) ==
    /\ a \in Y /\ b \in Y /\ a <= b
    /\ \A y \in Y : (a <= y /\ y < b) => After(Y, y) - y <= 3

\* the run cannot be extended: the year before a and the year after b are more than 3 away
IsMaximal(Y, a, b) ==
    /\ (\E z \in Y : z < a) => a - Before(Y, a) > 3
    /\ (\E z \in Y : z > b) => After(Y, b) - b > 3

\* periods are exactly the maximal runs of Y, in ascending order
AreMaximalRuns(Y, periods) ==
    /\ \A j \in 1..Len(periods) :
          IsRun(Y, periods[j][1], periods[j][2]) /\ IsMaximal(Y, periods[j][1], periods[j][2])
    /\ \A j \in 1..(Len(periods) - 1) : periods[j][2] < periods[j + 1][1]
    /\ \A y \in Y : \E j \in 1..Len(periods) : periods[j][1] <= y /\ y <= periods[j][2]
    /\ Len(periods) >= 1 /\ periods[Len(periods)][2] = SetMax(Y)

\* C1: for a timeline with at least one event, all of whose years are integers,
\* detect_activity_periods returns exactly the maximal runs of the distinct event
\* years with consecutive gaps of at most 3 (a gap of 3 merges, a gap of 4 splits),
\* the last period ending at the largest year; analyze_timeline reports the same
\* periods.
C1_ActivityPeriods ==
    (~df_timeline.isNone /\ Rows # <<>> /\ AllIntYears) =>
        /\ call.op = "detect_activity_periods" =>
              ret.tag = "ok" /\ AreMaximalRuns(EventYears, ret.val)
        /\ call.op = "analyze_timeline" =>
              ret.tag = "ok" /\ AreMaximalRuns(EventYears, ret.val.activity_periods)

\* C1 witness: years 0, 3, 7 give the periods (0,3) and (7,7): the gap of 3 merges
\* and the gap of 4 splits.
C1_Witness ==
    /\ call.op = "detect_activity_periods"
    /\ EventYears = {0, 3, 7} /\ AllIntYears
    /\ ret.tag = "ok"
    /\ ret.val = << <<0, 3>>, <<7, 7>> >>

HasWord(event, K) == \E i \in 1..Len(event) : event[i] \in K

\* C2: an event with a career keyword token is classified career_change wherever
\* that token stands, and an event with a success keyword and no career keyword is
\* classified success even if a failure keyword comes first.
C2_CategoryOrder ==
    (call.op = "identify_turning_points" /\ ret.tag = "ok") =>
        \A j \in 1..Len(ret.val) :
            /\ HasWord(ret.val[j].event, career_keywords) => ret.val[j].type = "career_change"
            /\ (HasWord(ret.val[j].event, success_keywords)
                /\ ~HasWord(ret.val[j].event, career_keywords)) => ret.val[j].type = "success"

\* C3: with an empty timeline (no rows, or no table at all) analyze_timeline returns
\* empty events_per_year, filtered_events, activity_periods and turning_points, and
\* detect_activity_periods and identify_turning_points return []; none raises.
C3_EmptyTimeline ==
    (df_timeline.isNone \/ Rows = <<>>) =>
        /\ call.op = "analyze_timeline" =>
              /\ ret.tag = "ok"
              /\ ret.val.events_per_year = <<>>
              /\ ret.val.filtered_events = <<>>
              /\ ret.val.activity_periods = <<>>
              /\ ret.val.turning_points = <<>>
        /\ call.op \in {"detect_activity_periods", "identify_turning_points"} =>
              ret.tag = "ok" /\ ret.val = <<>>

\* the rows whose integer year lies in [start_year, end_year]
InRange(rows, start_year, end_year) ==
    SelectSeq(rows, LAMBDA r : r.year.isInt /\ start_year <= r.year.n /\ r.year.n <= end_year)

\* C4: for given start_year and end_year (0 included) filtered_events holds exactly
\* the events whose integer year y has start_year <= y <= end_year; an event whose
\* year is not an integer is left out without an exception, and is still counted
\* in events_per_year.
C4_FilterRange ==
    (call.op = "analyze_timeline" /\ call.start_year.some /\ call.end_year.some) =>
        /\ ret.tag = "ok"
        /\ ret.val.filtered_events = InRange(Rows, call.start_year.v, call.end_year.v)
        /\ \A i \in 1..Len(Rows) :
              /\ YearStr(Rows[i].year) \in DOMAIN ret.val.events_per_year
              /\ ret.val.events_per_year[YearStr(Rows[i].year)] =
                    Cardinality({j \in 1..Len(Rows) : Rows[j].year = Rows[i].year})

-----------------------------------------------------------------------------
(* Claims about the date normalizers.                                      *)

Iso(y, m, d) == <<D(y, 4), Sym("-"), D(m, 2), Sym("-"), D(d, 2)>>

\* the calendar, as the claims read it
CalendarDate(y, m, d) ==
    /\ m \in 1..12 /\ d >= 1
    /\ d <= (CASE m \in {1, 3, 5, 7, 8, 10, 12} -> 31
               [] m \in {4, 6, 9, 11} -> 30
               [] OTHER -> IF (y % 4 = 0 /\ y % 100 # 0) \/ y % 400 = 0 THEN 29 ELSE 28)

EraStart(e) ==
    CASE e = "Reiwa" -> 2019
      [] e = "Heisei" -> 1989
      [] e = "Showa" -> 1926
      [] e = "Taisho" -> 1912
      [] e = "Meiji" -> 1868

\* s begins with a known era name followed by an era year N and nen
BeginsWithEra(s) ==
    Len(s) >= 3 /\ s[1].k \in {"Reiwa", "Heisei", "Showa", "Taisho", "Meiji"}
    /\ s[2].k = "d" /\ s[3] = Sym("nen")

\* ... and goes on with a month and a day: <era>N nen M gatsu D nichi
IsEraDate(s) ==
    BeginsWithEra(s) /\ Len(s) >= 7
    /\ s[4].k = "d" /\ s[5] = Sym("gatsu") /\ s[6].k = "d" /\ s[7] = Sym("nichi")

\* C5: a string that begins with a known era name and an era year N is converted to
\* the year era_start + N - 1 (starts 2019, 1989, 1926, 1912, 1868) with month and
\* day as written, and normalize_date returns that date as YYYY-MM-DD; a string with
\* no leading era name is handed on unchanged.
C5_EraConversion ==
    /\ (call.op = "convert_japanese_era_to_gregorian" /\ BeginsWithEra(input.s)) =>
          /\ ret.val[1] = D(EraStart(input.s[1].k) + input.s[2].v - 1, 4)
          /\ ret.val[2] = Sym("nen")
          /\ IsEraDate(input.s) =>
                ret.val = <<ret.val[1], Sym("nen"), input.s[4], Sym("gatsu"),
                            input.s[6], Sym("nichi")>>
    /\ (call.op = "convert_japanese_era_to_gregorian"
        /\ (input.s = <<>> \/ input.s[1].k \notin {"Reiwa", "Heisei", "Showa", "Taisho", "Meiji"})) =>
          ret.val = input.s
    /\ (call.op = "normalize_date" /\ IsEraDate(input.s)
        /\ CalendarDate(EraStart(input.s[1].k) + input.s[2].v - 1, input.s[4].v, input.s[6].v)) =>
          ret = Ok(Str(Iso(EraStart(input.s[1].k) + input.s[2].v - 1, input.s[4].v, input.s[6].v)))

\* C5 witness: Heisei 30 nen 12 gatsu 31 nichi has been normalized to 2018-12-31
C5_Witness ==
    /\ call.op = "normalize_date"
    /\ input.s = <<Sym("Heisei"), D(30, 2), Sym("nen"), D(12, 2), Sym("gatsu"), D(31, 2), Sym("nichi")>>
    /\ ret.tag = "ok" /\ ~ret.val.none
    /\ ret.val.s = <<D(2018, 4), Sym("-"), D(12, 2), Sym("-"), D(31, 2)>>

\* s is Y sep M sep D [end] with a 4-digit year, for the three ways of writing it
IsWrittenDate(s) ==
    /\ Len(s) \in {5, 6}
    /\ s[1].k = "d" /\ s[1].w = 4 /\ s[3].k = "d" /\ s[5].k = "d"
    /\ \/ Len(s) = 6 /\ s[2] = Sym("nen") /\ s[4] = Sym("gatsu") /\ s[6] = Sym("nichi")
       \/ Len(s) = 5 /\ s[2] = Sym("/") /\ s[4] = Sym("/")
       \/ Len(s) = 5 /\ s[2] = Sym("-") /\ s[4] = Sym("-")

\* C6: a date of the calendar written YYYY nen M gatsu D nichi with a 4-digit year
\* normalizes to YYYY-MM-DD with the same year, month and day, month and day padded
\* to two digits; the slash and the hyphen form of a date normalize to the same string.
C6_RoundTrip ==
    (call.op = "normalize_date" /\ IsWrittenDate(input.s)
     /\ CalendarDate(input.s[1].v, input.s[3].v, input.s[5].v)) =>
        ret = Ok(Str(Iso(input.s[1].v, input.s[3].v, input.s[5].v)))

\* C6 witness: 2021 nen 5 gatsu 1 nichi has been normalized to 2021-05-01
C6_Witness ==
    /\ call.op = "normalize_date"
    /\ input.s = <<D(2021, 4), Sym("nen"), D(5, 1), Sym("gatsu"), D(1, 1), Sym("nichi")>>
    /\ ret.tag = "ok" /\ ~ret.val.none
    /\ ret.val.s = <<D(2021, 4), Sym("-"), D(5, 2), Sym("-"), D(1, 2)>>

\* C7: normalize_date returns the sentinel fumei, never None, for the empty string,
\* for fumei itself and for a string that is no date.
C7_UnknownSentinel ==
    (call.op = "normalize_date"
     /\ input.s \in {<<>>, <<Sym("fumei")>>, <<Sym("x")>>, <<Sym("x"), Sym("x")>>}) =>
        ret = Ok(Str(<<Sym("fumei")>>))

IsNumber(part, w) == Len(part) = 1 /\ part[1].k = "d" /\ part[1].w = w

\* C8: the record of extract_and_format_birth_date / _death_date has the four
\* sub-keys year, month, day and full; either all four are the sentinel, or year,
\* month and day are the parts of one date and full is year-month-day; parsed and
\* sentinel sub-keys are never mixed.
C8_DateRecord ==
    (call.op \in {"extract_and_format_birth_date", "extract_and_format_death_date"}) =>
        /\ ret.tag = "ok"
        /\ DOMAIN ret.val.rec = {"year", "month", "day", "full"}
        /\ \/ \A key \in DOMAIN ret.val.rec : ret.val.rec[key] = <<Sym("fumei")>>
           \/ /\ IsNumber(ret.val.rec["year"], 4)
              /\ IsNumber(ret.val.rec["month"], 2)
              /\ IsNumber(ret.val.rec["day"], 2)
              /\ CalendarDate(ret.val.rec["year"][1].v, ret.val.rec["month"][1].v,
                              ret.val.rec["day"][1].v)
              /\ ret.val.rec["full"] =
                    ret.val.rec["year"] \o <<Sym("-")>> \o ret.val.rec["month"]
                    \o <<Sym("-")>> \o ret.val.rec["day"]

\* C8 witness: both kinds of record have been returned, a parsed one for a value
\* holding 1879 nen 5 gatsu 14 nichi inside other text ...
C8_Witness ==
    /\ call.op = "extract_and_format_birth_date"
    /\ input.s = <<Sym("x"), D(1879, 4), Sym("nen"), D(5, 1), Sym("gatsu"), D(14, 2), Sym("nichi")>>
    /\ ret.tag = "ok"
    /\ ret.val.rec["full"] = <<D(1879, 4), Sym("-"), D(5, 2), Sym("-"), D(14, 2)>>
    /\ ret.val.rec["month"] = <<D(5, 2)>>

IsIsoDate(s) ==
    /\ Len(s) = 5 /\ s[1].k = "d" /\ s[1].w = 4 /\ s[3].k = "d" /\ s[5].k = "d"
    /\ s[2] = Sym("-") /\ s[4] = Sym("-")
    /\ CalendarDate(s[1].v, s[3].v, s[5].v)

\* the number a decimal string stands for
NumberOf(s) == IF Len(s) = 2 /\ s[1] = Sym("-") THEN -s[2].v ELSE s[1].v

\* C9: calculate_age_at_death returns death_year - birth_year, less 1 exactly when
\* (death_month, death_day) is lexicographically smaller than (birth_month,
\* birth_day); when either argument is the sentinel the result is the sentinel.
C9_AgeAtDeath ==
    (call.op = "calculate_age_at_death") =>
        /\ (input.s = <<Sym("fumei")>> \/ input.t = <<Sym("fumei")>>) =>
              ret = Ok(<<Sym("fumei")>>)
        /\ (IsIsoDate(input.s) /\ IsIsoDate(input.t)) =>
              /\ ret.tag = "ok"
              /\ Len(ret.val) \in {1, 2} /\ ret.val[Len(ret.val)].k = "d"
              /\ NumberOf(ret.val) =
                    input.t[1].v - input.s[1].v
                    - (IF \/ input.t[3].v < input.s[3].v
                          \/ input.t[3].v = input.s[3].v /\ input.t[5].v < input.s[5].v
                       THEN 1 ELSE 0)

\* C9 witness: born 1879-03-18, died 1955-03-14, four days before the birthday: 75
C9_Witness ==
    /\ call.op = "calculate_age_at_death"
    /\ input.s = <<D(1879, 4), Sym("-"), D(3, 2), Sym("-"), D(18, 2)>>
    /\ input.t = <<D(1955, 4), Sym("-"), D(3, 2), Sym("-"), D(14, 2)>>
    /\ ret = Ok(<<D(75, 2)>>)

\* C10: every normalizer function is total on strings: for any string argument it
\* returns a value and never raises.
C10_NormalizersTotal ==
    (call.op \in {"normalize_date", "extract_and_format_birth_date",
                  "extract_and_format_death_date", "calculate_age_at_death"}) =>
        ret.tag = "ok"

-----------------------------------------------------------------------------
(* Claims about the scraper.                                               *)

IsHeading(soup, i) == soup.elements[i].level # 0
HeadingPositions(soup) ==
    LET idx == [i \in 1..Len(soup.elements) |-> i]
    IN  SelectSeq(idx, LAMBDA i : IsHeading(soup, i))

\* the nearest heading above element i of a higher level, 0 if there is none
ParentOf(soup, i) ==
    LET above == {j \in 1..(i - 1) :
                    IsHeading(soup, j) /\ soup.elements[j].level < soup.elements[i].level}
    IN  IF above = {} THEN 0 ELSE SetMax(above)

\* h3 headings only under an h2, h4 headings only under an h3
WellFormed(soup) ==
    \A i \in 1..Len(soup.elements) :
        soup.elements[i].level > 2 =>
            /\ ParentOf(soup, i) # 0
            /\ \A j \in (ParentOf(soup, i) + 1)..(i - 1) :
                 IsHeading(soup, j) => soup.elements[j].level >= soup.elements[i].level
            /\ soup.elements[ParentOf(soup, i)].level = soup.elements[i].level - 1

RECURSIVE AncestorsOf(_, _)
AncestorsOf(soup, i) ==
    IF ParentOf(soup, i) = 0 THEN <<>>
    ELSE AncestorsOf(soup, ParentOf(soup, i)) \o <<ParentOf(soup, i)>>

\* C11: in a well-formed document the extractor emits one section per heading,
\* in document order, and the category_texts of a section are the cleaned
\* titles of its ancestors, outermost first: heading_level - 2 of them, none
\* for an h2, the h2 for an h3, the h2 and the h3 for an h4, never its own.
C11_CategoryPath ==
    (call.op = "_extract_headings_and_body" /\ WellFormed(scraper.soup)) =>
        LET soup == scraper.soup
            at == HeadingPositions(soup)
        IN  /\ ret.tag = "ok"
            /\ Len(ret.val) = Len(at)
            /\ \A k \in 1..Len(at) :
                 LET section == ret.val[k]
                     anc == AncestorsOf(soup, at[k])
                 IN  /\ section.heading_level = soup.elements[at[k]].level
                     /\ section.heading_text = soup.elements[at[k]].text
                     /\ Len(section.category_texts) = section.heading_level - 2
                     /\ section.category_texts =
                            [n \in 1..Len(anc) |-> clean_text(soup.elements[anc[n]].text)]

C11_Witness ==
    /\ call.op = "_extract_headings_and_body"
    /\ WellFormed(scraper.soup)
    /\ scraper.soup.editlinks
    /\ \E k \in 1..Len(ret.val) :
         /\ ret.val[k].heading_level = 4
         /\ ret.val[k].category_texts = <<<<"shogai">>, <<"AB", "chosaku">>>>
         /\ ret.val[k].heading_text = <<"shogai">>

\* C12: _remove_excluded_sections removes exactly the sections whose own
\* heading text contains a blocklist keyword, whatever their ancestors are.
C12_OwnTitleExclusion ==
    call.op = "_remove_excluded_sections" =>
        ret.val = SelectSeq(extract_headings_and_body(scraper.soup),
                            LAMBDA section : ~ContainsKeyword(section.heading_text))

ExtractOps == {"extract_text", "extract_infobox_data", "extract_image_data"}

\* C13: an extraction called before fetch_page_data has stored a page raises
\* ValueError and leaves page_content, page_id and soup as they were.
C13_ContentNotFetched ==
    [][(call'.op \in ExtractOps /\ ~fetched) =>
          /\ ret' = Raise("ValueError")
          /\ scraper'.page_content = scraper.page_content
          /\ scraper'.page_id = scraper.page_id
          /\ scraper'.soup = scraper.soup]_vars

C13_Witness ==
    /\ call.op \in ExtractOps
    /\ ~fetched
    /\ ret = Raise("ValueError")
    /\ scraper.page_id.some
    /\ scraper.cache_headers # {}

FirstRowWithoutHeader(infobox) ==
    infobox.present /\ infobox.rows # <<>> /\ ~infobox.rows[1].has_th

HasNameRow(infobox) ==
    \E i \in 1..Len(infobox.rows) :
        infobox.rows[i].has_th /\ infobox.rows[i].has_td /\ infobox.rows[i].th = <<"namae">>

\* C14 as stated: without an infobox table extract_infobox_data returns the one
\* entry name = page title and raises nothing; with an infobox whose first row
\* has no header cell the name is the page title as well.
C14_InfoboxFallback ==
    (call.op = "extract_infobox_data" /\ ~ContentMissing(scraper)) =>
        /\ ret.tag = "ok"
        /\ ~scraper.page_content.infobox.present =>
             /\ DOMAIN ret.val = {"namae"}
             /\ ret.val["namae"] = <<scraper.page_title>>
        /\ FirstRowWithoutHeader(scraper.page_content.infobox) =>
             ret.val["namae"] = <<scraper.page_title>>

\* C14 amended: the fallback of the second case holds unless a row of the
\* infobox is itself keyed by the name, whose value then replaces the title.
C14_InfoboxFallbackAmended ==
    (call.op = "extract_infobox_data" /\ ~ContentMissing(scraper)) =>
        /\ ret.tag = "ok"
        /\ ~scraper.page_content.infobox.present =>
             /\ DOMAIN ret.val = {"namae"}
             /\ ret.val["namae"] = <<scraper.page_title>>
        /\ (FirstRowWithoutHeader(scraper.page_content.infobox)
              /\ ~HasNameRow(scraper.page_content.infobox)) =>
             ret.val["namae"] = <<scraper.page_title>>
        /\ HasNameRow(scraper.page_content.infobox) =>
             ret.val["namae"] = <<"Albert">>

C14_Witness ==
    /\ call.op = "extract_infobox_data"
    /\ FirstRowWithoutHeader(scraper.page_content.infobox)
    /\ ret.tag = "ok"
    /\ DOMAIN ret.val = {"namae", "seitan"}
    /\ ret.val["namae"] = <<scraper.page_title>>
    /\ ret.val["seitan"] = <<"Ulm">>

-----------------------------------------------------------------------------
(* Claims about analyze_network.                                           *)

NetworkNodes == UNION {{df_network.rows[i].source, df_network.rows[i].target} :
                          i \in 1..Len(df_network.rows)}
Adjacent(p, q) ==
    \E i \in 1..Len(df_network.rows) :
        {df_network.rows[i].source, df_network.rows[i].target} = {p, q}
Occurrences(s, x) == Cardinality({i \in 1..Len(s) : s[i] = x})

\* C15: analyze_network raises nothing; related_persons is empty when the
\* relation table is missing or empty or the target is not a node, and
\* otherwise holds every neighbour of the target once and nobody else, the
\* target itself exactly when it has a self-loop.
C15_RelatedPersons ==
    call.op = "analyze_network" =>
        /\ ret.tag = "ok"
        /\ IF call.target_person.some /\ call.target_person.v \in NetworkNodes
           THEN \A p \in Persons \cup {call.target_person.v} :
                   Occurrences(ret.val.related_persons, p) =
                       IF Adjacent(call.target_person.v, p) THEN 1 ELSE 0
           ELSE ret.val.related_persons = <<>>

C15_Witness ==
    /\ call.op = "analyze_network"
    /\ call.target_person = Target("Einstein")
    /\ Adjacent("Einstein", "Einstein")
    /\ Adjacent("Bohr", "Einstein")
    /\ Len(df_network.rows) = 2
    /\ Len(ret.val.related_persons) = 2

\* C16: whenever the graph built by analyze_network has a node, the returned
\* centrality holds a degree_centrality and a betweenness_centrality entry,
\* each scoring every node of the graph.
C16_BothCentralities ==
    (call.op = "analyze_network" /\ ~graph.isNone /\ graph.nodes # {}) =>
        /\ {"degree_centrality", "betweenness_centrality"} \subseteq DOMAIN ret.val.centrality
        /\ \A c \in {"degree_centrality", "betweenness_centrality"} :
             DOMAIN ret.val.centrality[c] = graph.nodes

-----------------------------------------------------------------------------
(* Claims about extract_relations.                                         *)

Resolved(m) == Candidate(m, processor.entities.person_names)
MentionPairs ==
    {p \in [s : 1..Len(processor.sentences), i : 1..MaxMentions + 1, j : 1..MaxMentions + 1] :
        p.i < p.j /\ p.j <= Len(processor.sentences[p.s])}

\* C17: for every pair of mentions of a sentence that both resolve to an
\* extracted name, extract_relations records a triple of the two names and
\* a relation type, the type being "unknown" when no pattern matches.
C17_PairRecorded ==
    (call.op = "extract_relations" /\ "jinmei" \in processor.entities.keys) =>
        \A p \in MentionPairs :
            LET person1 == Resolved(processor.sentences[p.s][p.i])
                person2 == Resolved(processor.sentences[p.s][p.j])
            IN  (person1 # NoName /\ person2 # NoName) =>
                    \E k \in 1..Len(ret.val) :
                        ret.val[k][1] = person1 /\ ret.val[k][2] = person2

\* C18: a mention resolves only to a name it matches with a partial ratio of
\* at least 80, an unmatched mention enters no relation, two mentions whose
\* partial ratio is at least 80 resolve to the same name, and two mentions
\* below the threshold resolve to different names.
C18_FuzzyResolution ==
    (call.op = "extract_relations" /\ "jinmei" \in processor.entities.keys) =>
        /\ \A p \in MentionPairs :
             LET m1 == processor.sentences[p.s][p.i]
                 m2 == processor.sentences[p.s][p.j]
             IN  /\ Resolved(m1) # NoName => partial_ratio(m1, Resolved(m1)) >= Threshold
                 /\ Resolved(m2) # NoName => partial_ratio(m2, Resolved(m2)) >= Threshold
                 /\ (Resolved(m1) # NoName /\ Resolved(m2) # NoName) =>
                        (partial_ratio(m1, m2) >= Threshold <=> Resolved(m1) = Resolved(m2))
        /\ \A k \in 1..Len(ret.val) : ret.val[k][1] # NoName /\ ret.val[k][2] # NoName

-----------------------------------------------------------------------------
(* Claims about extract_timeline.                                          *)

\* C19: the event list of extract_timeline holds no two entries with the
\* same year, date and event.
C19_NoDuplicateEvents ==
    call.op = "extract_timeline" =>
        \A i, j \in 1..Len(ret.val) :
            (/\ ret.val[i].year = ret.val[j].year
             /\ ret.val[i].date = ret.val[j].date
             /\ ret.val[i].event = ret.val[j].event) => i = j

-----------------------------------------------------------------------------
(* Claims about handle_missing_value.                                      *)

\* C20: handle_missing_value returns a non-empty string unchanged and the
\* unknown sentinel for None and for the empty string.
C20_MissingValue ==
    call.op = "handle_missing_value" =>
        /\ ret.tag = "ok"
        /\ ret.val = IF call.value.none \/ call.value.s = <<>>
                     THEN Str(Fumei)
                     ELSE call.value

-----------------------------------------------------------------------------
(* Claims about standardize_location and normalize_nationality_info.       *)

\* C21: standardize_location maps Tokyo to Tokyo-to and Osaka to Osaka-fu,
\* returns every other string unchanged, and applied to its own result
\* changes nothing.
C21_StandardizeLocation ==
    call.op = "standardize_location" =>
        /\ ret.tag = "ok"
        /\ input.s = Tokyo => ret.val = TokyoTo
        /\ input.s = Osaka => ret.val = OsakaFu
        /\ input.s \notin {Tokyo, Osaka} => ret.val = input.s
        /\ standardize_location(ret.val) = ret.val

\* a place of the mapping has been standardized
C21_Witness ==
    /\ call.op = "standardize_location"
    /\ input.s = Tokyo
    /\ ret.val = TokyoTo

\* the record the claim describes for one group
ExpectedRecord(g) ==
    [kokuseki |-> SelectSeq(MapSeq(g.names, LAMBDA t : <<t>>), LAMBDA w : w # <<Blank>>),
     kaishinen |-> g.start,
     shuryonen |-> IF g.end.w = 2 THEN (g.start \div 100) * 100 + g.end.v ELSE g.end.v]

TwoOrFourDigitEnds(gs) == \A i \in 1..Len(gs) : gs[i].end.w \in {2, 4}

\* C22: each "<names> <start>-<end>" group becomes one record of the names,
\* the start year and the end year, a two-digit end being expanded into the
\* century of the start; an input without a period group gives exactly one
\* record that holds the names and no year key.
C22_NationalityPeriods ==
    call.op = "normalize_nationality_info" =>
        /\ ret.tag = "ok"
        /\ (input.t # <<>> /\ input.s = JoinGroups(input.t) /\ TwoOrFourDigitEnds(input.t)) =>
              ret.val = MapSeq(input.t, ExpectedRecord)
        /\ input.s \in NoPeriodStrings =>
              /\ Len(ret.val) = 1
              /\ DOMAIN ret.val[1] = {"kokuseki"}
              /\ SelectSeq(Flatten(ret.val[1].kokuseki), IsWordToken)
                    = SelectSeq(input.s, IsWordToken)

\* two groups, the first with two names and a two-digit end in another
\* century than 1900, have been normalized
C22_Witness ==
    /\ call.op = "normalize_nationality_info"
    /\ input.s = <<Sym("Doitsu"), Blank, Sym("Suisu"), Blank, D(1879, 4), Hyphen, D(96, 2),
                   Blank, Sym("Suisu"), Blank, D(1996, 4), Hyphen, D(1901, 4)>>
    /\ Len(ret.val) = 2
    /\ ret.val[1].shuryonen = 1896

-----------------------------------------------------------------------------
(* Claims about the runs over several page titles.                         *)

\* C23: a failure while one subject is processed never aborts the run: every
\* subject of the list is taken up, no exception leaves the loop, and
\* save_combined_data writes the combined output.
C23_BatchNeverAborts ==
    call.op \in {"save_combined_data", "scraper_main"} =>
        /\ ret.tag = "ok"
        /\ batch.processed = Len(call.responses)
        /\ call.op = "save_combined_data" => batch.written

-----------------------------------------------------------------------------
(* Claims about extract_entities.                                          *)

\* the words of every section, in order
RECURSIVE AllWords(_)
AllWords(sections) ==
    IF sections = <<>> THEN <<>>
    ELSE sections[1].text_content \o AllWords(Tail(sections))

CountWhere(s, Test(_)) == Len(SelectSeq(s, Test))

PersonCount(all_entities, text) ==
    IF <<"jinmei", text>> \in DOMAIN all_entities THEN all_entities[<<"jinmei", text>>] ELSE 0

\* C24: the count of a surface form under the person category is the number
\* of its PERSON entities plus the number of its dictionary hits (none
\* without the dictionary tagger), both summed over all sections.
C24_PersonCountsMerged ==
    (call.op = "extract_entities" /\ ret.tag = "ok") =>
        LET words == AllWords(processor.text_data.headings_and_text)
        IN  \A text \in {words[i].text : i \in 1..Len(words)} :
                PersonCount(ret.val, text)
                    = CountWhere(words, LAMBDA w : w.text = text /\ w.label = "PERSON")
                      + (IF processor.mecab_neologd
                         THEN CountWhere(words, LAMBDA w : w.text = text /\ w.person_noun)
                         ELSE 0)

-----------------------------------------------------------------------------
(* Claims about the scans of the section extractor.                        *)

\* the first position after i of a heading of the level of i or shallower,
\* Len + 1 if there is none
ScanEnd(soup, i) ==
    LET stops == {j \in (i + 1)..Len(soup.elements) :
                    IsHeading(soup, j) /\ soup.elements[j].level <= soup.elements[i].level}
    IN  IF stops = {} THEN Len(soup.elements) + 1 ELSE SetMin(stops)

\* the positions from a to b of the headings of one level, in order
LevelPositions(soup, a, b, level) ==
    SelectSeq([i \in 1..Len(soup.elements) |-> i],
              LAMBDA i : a <= i /\ i <= b /\ soup.elements[i].level = level)

FlatMap(s, Op(_)) == Flatten([n \in 1..Len(s) |-> Op(s[n])])

\* every h2, each followed by the h3 headings of its scan, each of these
\* followed by the h4 headings of its scan, every scan ending at ScanEnd
ScannedPositions(soup) ==
    LET H4(j) == LevelPositions(soup, j + 1, ScanEnd(soup, j) - 1, 4)
        H3(i) == FlatMap(LevelPositions(soup, i + 1, ScanEnd(soup, i) - 1, 3),
                         LAMBDA j : <<j>> \o H4(j))
    IN  FlatMap(LevelPositions(soup, 1, Len(soup.elements), 2), LAMBDA i : <<i>> \o H3(i))

HeadingOf(section) == <<section.heading_level, section.heading_text>>
HeadingAt(soup, i) == <<soup.elements[i].level, soup.elements[i].text>>

\* C25: every sub-heading scan stops at the next heading of equal or
\* shallower level: the sections emitted are those of the h2 headings, of
\* the h3 headings up to the next h2 and of the h4 headings up to the next
\* h3 or h2, whatever the document is.
C25_ScansStopAtShallower ==
    call.op = "_extract_headings_and_body" =>
        LET at == ScannedPositions(scraper.soup)
        IN  /\ ret.tag = "ok"
            /\ [k \in 1..Len(ret.val) |-> HeadingOf(ret.val[k])]
                 = [k \in 1..Len(at) |-> HeadingAt(scraper.soup, at[k])]

\* C26: for a well-formed document the flattened list holds exactly one
\* section per h2, h3 and h4 heading, in document order.
C26_DocumentOrder ==
    (call.op = "_extract_headings_and_body" /\ WellFormed(scraper.soup)) =>
        LET at == HeadingPositions(scraper.soup)
        IN  /\ ret.tag = "ok"
            /\ Len(ret.val) = Len(at)
            /\ \A k \in 1..Len(at) : HeadingOf(ret.val[k]) = HeadingAt(scraper.soup, at[k])

\* an h2 with an h3 that has an h4 and is followed by a second h3
C26_Witness ==
    /\ call.op = "_extract_headings_and_body"
    /\ WellFormed(scraper.soup)
    /\ [i \in 1..Len(scraper.soup.elements) |-> scraper.soup.elements[i].level] = <<2, 3, 4, 3>>
    /\ [k \in 1..Len(ret.val) |-> ret.val[k].heading_level] = <<2, 3, 4, 3>>

\* the texts of the elements after heading i and before ScanEnd that are
\* neither headings nor figures
TextsUnder(soup, i) ==
    LET at == SelectSeq([j \in 1..Len(soup.elements) |-> j],
                        LAMBDA j : /\ i < j /\ j < ScanEnd(soup, i)
                                   /\ ~IsHeading(soup, j)
                                   /\ soup.elements[j].name # "figure")
    IN  [n \in 1..Len(at) |-> soup.elements[at[n]].text]

\* C28: the text of a section is the join, in document order, of the texts
\* of the elements between its heading and the next heading of its level or
\* shallower that are no headings and no figures; the paragraphs under a
\* deeper sub-heading are part of it.
C28_SectionText ==
    (call.op = "_extract_headings_and_body" /\ WellFormed(scraper.soup)) =>
        LET at == HeadingPositions(scraper.soup)
        IN  /\ Len(ret.val) = Len(at)
            /\ \A k \in 1..Len(at) : ret.val[k].text = TextsUnder(scraper.soup, at[k])

\* a paragraph and a figure under an h3 of an h2: the paragraph is in the
\* text of both sections
C28_Witness ==
    /\ call.op = "_extract_headings_and_body"
    /\ [i \in 1..Len(scraper.soup.elements) |-> scraper.soup.elements[i].name]
         = <<"div", "div", "p", "figure">>
    /\ Len(ret.val) = 2
    /\ ret.val[1].heading_level = 2 /\ ret.val[1].text = <<<<"honbun">>>>
    /\ ret.val[2].heading_level = 3 /\ ret.val[2].text = <<<<"honbun">>>>

-----------------------------------------------------------------------------
(* Claims about _remove_words.                                             *)

Occurs(word, text) == \E i \in 1..Len(text) : MatchesAt(text, i, word)

\* C29: after _remove_words with a non-empty word list the text holds no
\* occurrence of a word of the list, and removing the words once more
\* changes nothing.
C29_RemoveWordsIdempotent ==
    (call.op = "_remove_words" /\ input.t # <<>>) =>
        /\ \A k \in 1..Len(input.t) : ~Occurs(input.t[k], ret.val)
        /\ remove_words(ret.val, input.t) = ret.val

-----------------------------------------------------------------------------
(* Claims about convert_to_ce.                                             *)

\* the era name of the normalizer's table for an era name in characters
EraOfChars(chars) ==
    CASE chars = MeijiName -> "Meiji"
      [] chars = TaishoName -> "Taisho"
      [] chars = ShowaName -> "Showa"
      [] chars = HeiseiName -> "Heisei"
      [] chars = ReiwaName -> "Reiwa"
      [] OTHER -> ""

\* the year convert_japanese_era_to_gregorian computes for an era and N
GregorianOfEra(era, n) ==
    LET k == CHOOSE k \in 1..Len(eras) : eras[k].era = era
    IN  EraYearToGregorian(eras[k].start_year, n)

\* C27: convert_to_ce maps a year string that starts with a known era name
\* followed by N and the year sign to era_start + N - 1, the year of
\* convert_japanese_era_to_gregorian, and extract_timeline keeps an event
\* dated by an era year under that Gregorian year.
C27_EraYearsConverted ==
    /\ (call.op = "convert_to_ce" /\ call.year_str.era \in EraNameChars) =>
          ret.val = Some(GregorianOfEra(EraOfChars(call.year_str.era), call.year_str.v))
    /\ call.op = "extract_timeline" =>
          \A i \in 1..(Len(processor.text) - 2) :
              (/\ processor.text[i].k \in EraNames
               /\ IsDigits(processor.text[i + 1])
               /\ processor.text[i + 2] = Nen) =>
                  \E k \in 1..Len(ret.val) :
                      ret.val[k].year = GregorianOfEra(processor.text[i].k, processor.text[i + 1].v)

-----------------------------------------------------------------------------
(* Claims about the state fetch_page_data leaves.                          *)

\* page_content is not None
ContentSet(s) == s.page_content.kind # "none"

\* C30: over any sequence of fetch_page_data calls that succeed, fail with a
\* request or API error or end early on 304, page_content is set exactly
\* when page_id is set, and a 304 response changes neither page_id,
\* page_content nor the stored cache headers.
C30_ContentIffPageId ==
    [][(call'.op = "fetch_page_data" /\ ret'.exc \in {"", "ValueError"}) =>
          /\ (ContentSet(scraper) <=> scraper.page_id.some) =>
                 (ContentSet(scraper') <=> scraper'.page_id.some)
          /\ call'.status = "304" => scraper' = scraper]_vars

====
